---- MODULE Spec2Model ----
(***************************************************************************)
(* A model of lowlua's State wrapper (src/src/state/mod.rs), its value     *)
(* marshalling traits (src/src/state/traits.rs) and the types of           *)
(* src/src/lib.rs, over an abstract Lua 5.3 VM.                            *)
(*                                                                         *)
(* The VM state is the record L handed from primitive to primitive:        *)
(*   L.stack  the value stack of the running frame (index 1 = bottom)      *)
(*   L.up     the upvalues of the running native closure                   *)
(*   L.ci     the active VM call frames, innermost first                   *)
(*   L.ud     the full-userdata blocks alive, by address                   *)
(*   L.tabs   the tables, by table id                                      *)
(*   L.strs   the string objects alive, by address                         *)
(* Every State method is an operator from L to L (or to [L, r] when it     *)
(* returns a value), written in the order of the method's statements.      *)
(***************************************************************************)
EXTENDS Integers, Sequences, FiniteSets, TLC

(***************************************************************************)
(* Bounds of the model.                                                    *)
(***************************************************************************)
MaxStack == 3    \* slots the VM's stack may hold, all frames together
MaxTop == 2      \* slots the host fills for its reads
MaxDepth == 2    \* native callbacks active at once (nested State::call)
MaxUd == 3       \* userdata blocks alive at once
MaxStr == 2      \* string objects alive at once

(***************************************************************************)
(* VM values.  Every value is a record whose field t is its VM type.       *)
(***************************************************************************)
Nil == [t |-> "nil", v |-> 0]
None == [t |-> "none", v |-> 0]
IntV(n) == [t |-> "int", v |-> n]
BoolV(b) == [t |-> "bool", v |-> b]
StrV(s, a) == [t |-> "str", v |-> s, a |-> a]
TabV(id) == [t |-> "tab", v |-> id]
UdV(id) == [t |-> "ud", v |-> id]
FnV(f, up) == [t |-> "fn", v |-> [f |-> f, up |-> up]]

\* A table key: strings are keys by content, whatever object holds them.
KeyOf(key) == IF key.t = "str" THEN [t |-> "str", v |-> key.v] ELSE key
StrKey(s) == [t |-> "str", v |-> s]

TGet(tab, key) == IF key \in DOMAIN tab THEN tab[key] ELSE Nil
TSet(tab, key, new) ==
  IF new = Nil
  THEN [k \in DOMAIN tab \ {key} |-> tab[k]]
  ELSE [k \in DOMAIN tab \cup {key} |-> IF k = key THEN new ELSE tab[k]]
EmptyTable == [k \in {} |-> Nil]

\* The VM's allocator: a new object takes the lowest address not in use.
EmptyHeap == [a \in {} |-> Nil]
FreeAddr(heap) ==
  CHOOSE a \in 1..(Cardinality(DOMAIN heap) + 1) :
    a \notin DOMAIN heap /\ \A b \in 1..(a - 1) : b \in DOMAIN heap
Alloc(heap, obj) ==
  [a \in DOMAIN heap \cup {FreeAddr(heap)} |-> IF a = FreeAddr(heap) THEN obj ELSE heap[a]]

(***************************************************************************)
(* lib.rs: LuaIndex and its conversion to a VM index.                      *)
(***************************************************************************)
LUA_REGISTRYINDEX == -1001000
StackIdx(i) == [k |-> "Stack", i |-> i]
UpvalueIdx(i) == [k |-> "Upvalue", i |-> i]
RegistryIdx == [k |-> "Registry", i |-> 0]
lua_upvalueindex(i) == LUA_REGISTRYINDEX - i
to_ffi(idx) ==
  CASE idx.k = "Stack" -> idx.i
    [] idx.k = "Upvalue" -> lua_upvalueindex(idx.i + 1)
    [] OTHER -> LUA_REGISTRYINDEX
to_stack(idx) == idx.i

(***************************************************************************)
(* Integer widths.  TLC's integers are 32 bits wide, so the model scales   *)
(* the widths down and keeps the casts: u32 and c_int have CIntBits bits,  *)
(* u64, usize and lua_Integer have LuaIntBits bits.                        *)
(***************************************************************************)
CIntBits == 8
LuaIntBits == 16
Pow2(n) == 2 ^ n
\* `x as c_int` for a u32 x, `x as lua_Integer` for a u64 x
as_c_int(x) == IF x >= Pow2(CIntBits - 1) THEN x - Pow2(CIntBits) ELSE x
as_lua_Integer(x) == IF x >= Pow2(LuaIntBits - 1) THEN x - Pow2(LuaIntBits) ELSE x
\* `x as lua_Unsigned` for a lua_Integer x
as_lua_Unsigned(x) == IF x < 0 THEN x + Pow2(LuaIntBits) ELSE x
LUA_MULTRET == -1
\* the most values push_closure associates, and the VM's limit of upvalues
MaxAssociated == 254
MAXUPVAL == 255

(***************************************************************************)
(* The VM's stack primitives, as State wraps them.                         *)
(***************************************************************************)
get_top(L) == Len(L.stack)

\* lua_absindex on a stack index
lua_absindex(L, i) == IF i > 0 THEN i ELSE Len(L.stack) + i + 1

abs_index(L, idx) ==
  IF idx.k = "Stack" THEN StackIdx(lua_absindex(L, to_ffi(idx))) ELSE idx

\* The value an acceptable VM index addresses (None: no value there).
index2value(L, i) ==
  CASE i > 0 -> IF i <= Len(L.stack) THEN L.stack[i] ELSE None
    [] i = 0 -> None
    [] i < 0 /\ i > LUA_REGISTRYINDEX ->
         IF Len(L.stack) + i + 1 >= 1 THEN L.stack[Len(L.stack) + i + 1] ELSE None
    [] i = LUA_REGISTRYINDEX -> TabV(1)
    [] OTHER ->
         IF LUA_REGISTRYINDEX - i <= Len(L.up) THEN L.up[LUA_REGISTRYINDEX - i] ELSE None

value_at(L, idx) == index2value(L, to_ffi(idx))

\* lua_settop for idx >= 0: new slots are nil
lua_settop(L, n) ==
  [L EXCEPT !.stack = [i \in 1..n |-> IF i <= Len(L.stack) THEN L.stack[i] ELSE Nil]]

set_top(L, idx) == lua_settop(L, idx)

\* State::set_top as the host calls it: assert!(idx >= 0) comes first
set_top_asserted(L, idx) ==
  IF idx >= 0
  THEN [L |-> set_top(L, idx), r |-> [kind |-> "Ok", val |-> "()"]]
  ELSE [L |-> L, r |-> [kind |-> "Panic", val |-> "assertion failed: idx >= 0"]]

pop(L, n) == lua_settop(L, Len(L.stack) - n)

lua_push(L, val) == [L EXCEPT !.stack = Append(@, val)]

push_nil(L) == lua_push(L, Nil)

push_value(L, idx) == lua_push(L, value_at(L, idx))

\* lua_insert: the top element moves to position idx, those above shift up
insert(L, idx) ==
  LET a == lua_absindex(L, idx)
      n == Len(L.stack)
  IN [L EXCEPT !.stack =
        [i \in 1..n |-> IF i < a THEN L.stack[i]
                        ELSE IF i = a THEN L.stack[n]
                        ELSE L.stack[i - 1]]]

\* lua_remove: the element at idx goes, those above shift down
remove(L, idx) ==
  LET a == lua_absindex(L, idx)
      n == Len(L.stack)
  IN [L EXCEPT !.stack =
        [i \in 1..(n - 1) |-> IF i < a THEN L.stack[i] ELSE L.stack[i + 1]]]

LuaTypeName(val) ==
  CASE val.t = "nil" -> "Nil"
    [] val.t = "bool" -> "Boolean"
    [] val.t = "int" -> "Number"
    [] val.t = "str" -> "String"
    [] val.t = "fn" -> "Function"
    [] val.t = "ud" -> "Userdata"
    [] val.t = "tab" -> "Table"
    [] OTHER -> "None"

\* Option<LuaType>: "None" for a non-valid index
type_at(L, idx) == LuaTypeName(value_at(L, idx))

(***************************************************************************)
(* Tables.                                                                 *)
(***************************************************************************)
\* lua_rawget: the key on top is replaced by t[key]
raw_get(L, idx) ==
  LET t == value_at(L, idx)
      n == Len(L.stack)
      key == KeyOf(L.stack[n])
  IN [L EXCEPT !.stack = [@ EXCEPT ![n] = TGet(L.tabs[t.v].kv, key)]]

\* lua_rawset: t[key] = value, value on top and key below it; both popped
raw_set(L, idx) ==
  LET t == value_at(L, idx)
      n == Len(L.stack)
      key == KeyOf(L.stack[n - 1])
      val == L.stack[n]
  IN [L EXCEPT !.stack = SubSeq(@, 1, n - 2),
               !.tabs = [@ EXCEPT ![t.v].kv = TSet(@, key, val)]]

\* lua_rawgeti / lua_rawseti
lua_rawgeti(L, i, n) ==
  lua_push(L, TGet(L.tabs[index2value(L, i).v].kv, IntV(n)))

lua_rawseti(L, i, n) ==
  LET t == index2value(L, i)
      top == Len(L.stack)
  IN [L EXCEPT !.stack = SubSeq(@, 1, top - 1),
               !.tabs = [@ EXCEPT ![t.v].kv = TSet(@, IntV(n), L.stack[top])]]

\* lua_getfield / lua_setfield on a table without metamethods
get_field(L, idx, k) ==
  lua_push(L, TGet(L.tabs[value_at(L, idx).v].kv, StrKey(k)))

lua_setfield(L, i, k) ==
  LET t == index2value(L, i)
      top == Len(L.stack)
  IN [L EXCEPT !.stack = SubSeq(@, 1, top - 1),
               !.tabs = [@ EXCEPT ![t.v].kv = TSet(@, StrKey(k), L.stack[top])]]

\* The table State::new saves in the VM registry under the extra-space key.
ExtraSpaceKey == [t |-> "lud", v |-> "extraspace"]
RegistryTable == 1
get_internal_registry(L) == lua_push(L, TGet(L.tabs[RegistryTable].kv, ExtraSpaceKey))

\* A get_registry that hands out the internal registry itself.
get_registry_internal(L) == get_internal_registry(L)

\* State::get_registry: the table stored under "user"
get_registry(L) ==
  remove(get_field(get_internal_registry(L), StackIdx(-1), "user"), -2)

\* lua_newtable
new_table(L) ==
  LET id == Len(L.tabs) + 1
  IN [L EXCEPT !.tabs = Append(@, [kv |-> EmptyTable, mt |-> 0]),
               !.stack = Append(@, TabV(id))]


(***************************************************************************)
(* Pushing scalars and strings.                                            *)
(***************************************************************************)
push_integer(L, n) == lua_push(L, IntV(n))

\* lua_pushunsigned: the value cast to lua_Integer
push_unsigned(L, n) == lua_push(L, IntV(as_lua_Integer(n)))

push_boolean(L, b) == lua_push(L, BoolV(b))

\* lua_pushlstring.  The VM keeps one object for each short string (at most
\* 40 bytes, LUAI_MAXSHORTLEN) that is alive and makes a new object for every
\* longer one; the object's address is what lua_tostring returns.
IsShortString(s) == Len(s) <= 40
StrObjs(L, s) == {a \in DOMAIN L.strs : L.strs[a] = s}
new_string(L, s) ==
  IF IsShortString(s) /\ StrObjs(L, s) # {}
  THEN [L |-> L, val |-> StrV(s, CHOOSE a \in StrObjs(L, s) : TRUE)]
  ELSE [L |-> [L EXCEPT !.strs = Alloc(@, s)], val |-> StrV(s, FreeAddr(L.strs))]

push_string(L, s) == lua_push(new_string(L, s).L, new_string(L, s).val)

(***************************************************************************)
(* lib.rs: RunError, and State::backtrace.                                 *)
(***************************************************************************)
RunError_new(message, backtrace) == [message |-> message, backtrace |-> backtrace]

\* (the message's backquotes are left out: a TLA+ string cannot hold them)
conversion_from_lua(src_type, dst_type, backtrace) ==
  RunError_new(IF src_type = "None"
               THEN "invalid index"
               ELSE "invalid conversion from Lua type " \o src_type
                    \o " to Rust type " \o dst_type,
               backtrace)

\* RunResult<T>; Unwind is the host-side non-local exit (a panic) in its place
Ok(val) == [kind |-> "Ok", val |-> val]
Err(e) == [kind |-> "Err", val |-> e]
Unwind(payload) == [kind |-> "Panic", val |-> payload]
Unit == 0

RECURSIVE NatToStr(_)
NatToStr(n) ==
  LET d == <<"0", "1", "2", "3", "4", "5", "6", "7", "8", "9">>[(n % 10) + 1]
  IN IF n < 10 THEN d ELSE NatToStr(n \div 10) \o d
\* the decimal form the VM gives an integer
IntToStr(n) == IF n < 0 THEN "-" \o NatToStr(0 - n) ELSE NatToStr(n)

\* A frame of a native function, as lua_getinfo("Sln") describes it.
CFrame(f) ==
  [fn |-> f, what |-> "C", short_src |-> "[C]", currentline |-> -1,
   namewhat |-> "", name |-> "", linedefined |-> -1]

\* An entry that looks at what the function is before the name the VM gives.
backtrace_entry_native_first(ar) ==
  LET currentline == IF ar.currentline > 0 THEN IntToStr(ar.currentline) ELSE ""
      name == IF ar.what = "main" THEN "[main]"
              ELSE IF ar.what = "C" THEN "[native]"
              ELSE IF ar.namewhat # "" THEN ar.namewhat \o " '" \o ar.name \o "'"
              ELSE "function <" \o ar.short_src \o ":" \o IntToStr(ar.linedefined) \o ">"
  IN ar.short_src \o ":" \o currentline \o " in " \o name

backtrace_entry(ar) ==
  LET currentline == IF ar.currentline > 0 THEN IntToStr(ar.currentline) ELSE ""
      name == IF ar.namewhat # "" THEN ar.namewhat \o " '" \o ar.name \o "'"
              ELSE IF ar.what = "main" THEN "[main]"
              ELSE IF ar.what = "C" THEN "[native]"
              ELSE "function <" \o ar.short_src \o ":" \o IntToStr(ar.linedefined) \o ">"
  IN ar.short_src \o ":" \o currentline \o " in " \o name

\* level 0 is the running function, the last level the outermost VM frame
backtrace(L) == [level \in 1..Len(L.ci) |-> backtrace_entry(L.ci[level])]


(***************************************************************************)
(* Reading scalars and strings: State::to_integer and its kin.             *)
(***************************************************************************)
\* the slot an index addresses takes a new value (lua_tolstring converts in place)
set_value(L, i, val) ==
  CASE i > 0 -> [L EXCEPT !.stack[i] = val]
    [] i < 0 /\ i > LUA_REGISTRYINDEX -> [L EXCEPT !.stack[Len(L.stack) + i + 1] = val]
    [] i < LUA_REGISTRYINDEX -> [L EXCEPT !.up[LUA_REGISTRYINDEX - i] = val]
    [] OTHER -> L

\* The integers whose decimal form the model can read back from a string.
NumeralRange == -2..20
IsNumeral(s) == \E n \in NumeralRange : IntToStr(n) = s
NumeralValue(s) == CHOOSE n \in NumeralRange : IntToStr(n) = s

\* lua_tolstring: a string as it is, a number converted to a string in its
\* slot (made is the string object of its decimal form)
lua_tolstring_number(i, made) == [L |-> set_value(made.L, i, made.val), str |-> made.val]

lua_tolstring(L, i) ==
  LET val == index2value(L, i)
  IN CASE val.t = "str" -> [L |-> L, str |-> val]
       [] val.t = "int" -> lua_tolstring_number(i, new_string(L, IntToStr(val.v)))
       [] OTHER -> [L |-> L, str |-> None]

\* lua_tointegerx: isnum and the integer
lua_tointegerx(L, i) ==
  LET val == index2value(L, i)
  IN CASE val.t = "int" -> [isnum |-> TRUE, num |-> val.v]
       [] val.t = "str" /\ IsNumeral(val.v) -> [isnum |-> TRUE, num |-> NumeralValue(val.v)]
       [] OTHER -> [isnum |-> FALSE, num |-> 0]

to_number(L, idx) ==
  LET c == lua_tointegerx(L, to_ffi(idx))
  IN IF ~c.isnum
     THEN Err(conversion_from_lua(type_at(L, idx), "f64", backtrace(L)))
     ELSE Ok(c.num)

to_integer(L, idx) ==
  LET c == lua_tointegerx(L, to_ffi(idx))
  IN IF ~c.isnum
     THEN Err(conversion_from_lua(type_at(L, idx), "i64", backtrace(L)))
     ELSE Ok(c.num)

to_boolean(L, idx) ==
  LET val == value_at(L, idx)
  IN ~(val.t \in {"nil", "none"} \/ val = BoolV(FALSE))

\* c is what lua_tolstring gave: the VM after it and the string, or None
string_of(c, idx) ==
  IF c.str = None
  THEN [L |-> c.L, r |-> Err(conversion_from_lua(type_at(c.L, idx), "String", backtrace(c.L)))]
  ELSE [L |-> c.L, r |-> Ok(c.str.v)]

to_string(L, idx) == string_of(lua_tolstring(L, to_ffi(idx)), idx)

string_ptr_of(c, idx) ==
  IF c.str = None
  THEN [L |-> c.L, r |-> Err(conversion_from_lua(type_at(c.L, idx), "usize", backtrace(c.L)))]
  ELSE [L |-> c.L, r |-> Ok(c.str.a)]

to_string_ptr(L, idx) == string_ptr_of(lua_tolstring(L, to_ffi(idx)), idx)

to_unsigned(L, idx) ==
  LET c == lua_tointegerx(L, to_ffi(idx))
  IN IF ~c.isnum
     THEN Err(conversion_from_lua(type_at(L, idx), "u64", backtrace(L)))
     ELSE Ok(as_lua_Unsigned(c.num))

(***************************************************************************)
(* Userdata.                                                               *)
(***************************************************************************)
\* TypeId::of::<T>() hashed: one key for each host type
TypeHash(T) ==
  CASE T = "RunError" -> 1
    [] T = "Box<Any+Send>" -> 2
    [] T = "A" -> 3
    [] OTHER -> 4

\* lua_newuserdata with the block's content written
lua_newuserdata(L, block) ==
  [L EXCEPT !.ud = Alloc(@, block), !.stack = Append(@, UdV(FreeAddr(L.ud)))]

\* lua_setmetatable: the table (or nil) on top becomes the metatable of the
\* value at i and is popped; a value that is neither userdata nor table has
\* only its type's shared metatable, which the model does not hold
lua_setmetatable(L, i) ==
  LET top == Len(L.stack)
      mt == IF L.stack[top].t = "tab" THEN L.stack[top].v ELSE 0
      obj == index2value(L, i)
      popped == [L EXCEPT !.stack = SubSeq(@, 1, top - 1)]
  IN CASE obj.t = "ud" -> [popped EXCEPT !.ud[obj.v].mt = mt]
       [] obj.t = "tab" -> [popped EXCEPT !.tabs[obj.v].mt = mt]
       [] OTHER -> popped

\* A lookup that makes a new metatable at every call.
get_metatable_of_uncached(L, T) ==
  LET mt_key == TypeHash(T)
      L1 == get_internal_registry(L)
      L2 == get_field(L1, StackIdx(-1), "mt")
      L3 == remove(L2, -2)
      M2 == new_table(L3)
      M3 == lua_push(M2, FnV("gc<" \o T \o ">", <<>>))
      M4 == lua_setfield(M3, -2, "__gc")
      M5 == push_value(M4, StackIdx(-1))
      M6 == lua_rawseti(M5, -3, mt_key)
  IN remove(M6, -2)

\* F applied to the VM as L has it, L looked at once
Once(F(_), L) == CHOOSE after \in {F(l) : l \in {L}} : TRUE

get_metatable_of(L, T) ==
  LET mt_key == TypeHash(T)
      L1 == Once(LAMBDA l : get_internal_registry(l), L)
      L2 == Once(LAMBDA l : get_field(l, StackIdx(-1), "mt"), L1)
      L3 == Once(LAMBDA l : remove(l, -2), L2)
      L4 == Once(LAMBDA l : lua_rawgeti(l, -1, mt_key), L3)
      \* Create the metatable
      M1 == Once(LAMBDA l : pop(l, 1), L4)
      M2 == Once(LAMBDA l : new_table(l), M1)
      M3 == Once(LAMBDA l : lua_push(l, FnV("gc<" \o T \o ">", <<>>)), M2)
      M4 == Once(LAMBDA l : lua_setfield(l, -2, "__gc"), M3)
      M5 == Once(LAMBDA l : push_value(l, StackIdx(-1)), M4)
      M6 == Once(LAMBDA l : lua_rawseti(l, -3, mt_key), M5)
      L5 == Once(LAMBDA l : IF index2value(l, -1) = Nil THEN M6 ELSE l, L4)
  IN Once(LAMBDA l : remove(l, -2), L5)

push_userdata(L, T, value) ==
  LET L1 == lua_newuserdata(L, [type_id |-> T, value |-> value, mt |-> 0])
      \* Associate metatable
      L2 == get_metatable_of(L1, T)
  IN lua_setmetatable(L2, -2)

is_userdata_of_type(L, T, idx) ==
  IF value_at(L, idx).t = "ud"
  THEN L.ud[value_at(L, idx).v].type_id = T
  ELSE FALSE

\* An accessor that grants the reference whatever the block's type tag is.
userdata_at_unchecked(L, T, idx) ==
  IF value_at(L, idx).t = "ud"
  THEN Ok([block |-> value_at(L, idx).v, value |-> L.ud[value_at(L, idx).v].value])
  ELSE Err(conversion_from_lua(type_at(L, idx), T, backtrace(L)))

\* Ok holds the reference: the block it points into and the value read there
userdata_at(L, T, idx) ==
  IF value_at(L, idx).t = "ud"
  THEN IF L.ud[value_at(L, idx).v].type_id = T
       THEN Ok([block |-> value_at(L, idx).v, value |-> L.ud[value_at(L, idx).v].value])
       ELSE Err(conversion_from_lua("Userdata", T, backtrace(L)))
  ELSE Err(conversion_from_lua(type_at(L, idx), T, backtrace(L)))

\* Now copy back into Rust managed memory: lua_obj is what userdata_at gave
copy_out(L, lua_obj) ==
  IF lua_obj.kind = "Err"
  THEN [L |-> L, r |-> lua_obj]
  ELSE [L |-> L, r |-> Ok(lua_obj.val.value)]

\* A move that leaves the metatable on the record.
clear_metatable_skipped(L, aidx) == L

\* First clear the metatable: a nil is pushed and lua_setmetatable pops it
clear_metatable(L, aidx) == lua_setmetatable(push_nil(L), to_ffi(aidx))

moved_out(L, T, aidx) == copy_out(L, userdata_at(L, T, aidx))

\* A move that leaves the nil it pushed on the stack.
userdata_move_leaves_nil(L, T, idx) == moved_out(push_nil(L), T, abs_index(L, idx))

userdata_move(L, T, idx) ==
  moved_out(clear_metatable(L, abs_index(L, idx)), T, abs_index(L, idx))


(***************************************************************************)
(* traits.rs: ToLua and FromLua, and State::push, State::at.               *)
(***************************************************************************)
UnsignedTypes == {"u8", "u16", "u32", "u64", "usize"}
SignedTypes == {"i8", "i16", "i32", "i64", "isize"}
FromLuaTypes == UnsignedTypes \cup SignedTypes \cup {"f32", "f64", "bool", "String", "LuaString"}

\* the scaled width of a host integer type
TypeBits(T) ==
  CASE T \in {"u8", "i8"} -> CIntBits \div 2
    [] T \in {"u16", "i16"} -> CIntBits - 2
    [] T \in {"u32", "i32"} -> CIntBits
    [] OTHER -> LuaIntBits

\* T::try_from(x) succeeds
InRange(T, x) ==
  IF T \in UnsignedTypes
  THEN 0 <= x /\ x < Pow2(TypeBits(T))
  ELSE 0 - Pow2(TypeBits(T) - 1) <= x /\ x < Pow2(TypeBits(T) - 1)

\* An intern that pops one slot of the two it has left.
intern_record_pops_one(p) ==
  LET val == p.r.val
      L4 == push_unsigned(p.L, val)
      L5 == insert(L4, -2)
      L6 == raw_set(L5, StackIdx(-3))
      L7 == pop(L6, 1)
  IN [L |-> L7, r |-> val]

\* intern from the pointer on: p is what to_string_ptr(-1) gave
intern_record(p) ==
  LET val == p.r.val
      L4 == push_unsigned(p.L, val)
      L5 == insert(L4, -2)
      L6 == raw_set(L5, StackIdx(-3))
      L7 == pop(L6, 2)
  IN [L |-> L7, r |-> val]

intern(L, s) ==
  LET L1 == get_internal_registry(L)
      L2 == get_field(L1, StackIdx(-1), "string")
      L3 == push_string(L2, s)
  IN intern_record(to_string_ptr(L3, StackIdx(-1)))

\* A push of a handle that leaves the string table under the string.
LuaString_to_lua_keeps_table(L, h) ==
  LET L1 == get_internal_registry(L)
      L2 == get_field(L1, StackIdx(-1), "string")
      L3 == remove(L2, -2)
      L4 == push_unsigned(L3, h)
  IN raw_get(L4, StackIdx(-2))

\* impl ToLua for LuaString
LuaString_to_lua(L, h) ==
  LET L1 == get_internal_registry(L)
      L2 == get_field(L1, StackIdx(-1), "string")
      L3 == remove(L2, -2)
      L4 == push_unsigned(L3, h)
      L5 == raw_get(L4, StackIdx(-2))
  IN remove(L5, -2)

\* impl FromLua for LuaString
\* Record a reference to the string: p is what to_string_ptr(idx) gave
record_reference(p, idx) ==
  LET val == p.r.val
      L1 == get_internal_registry(p.L)
      L2 == get_field(L1, StackIdx(-1), "string")
      L3 == push_unsigned(L2, val)
      L4 == push_value(L3, idx)
      L5 == raw_set(L4, StackIdx(-3))
      L6 == pop(L5, 2)
  IN IF p.r.kind = "Err" THEN [L |-> p.L, r |-> p.r] ELSE [L |-> L6, r |-> Ok(val)]

LuaString_from_lua(L, idx) == record_reference(to_string_ptr(L, idx), idx)

to_lua(L, T, val) ==
  CASE T \in UnsignedTypes -> push_unsigned(L, val)
    [] T \in SignedTypes -> push_integer(L, val)
    [] T \in {"f32", "f64"} -> push_integer(L, val)
    [] T = "bool" -> push_boolean(L, val)
    [] T \in {"String", "str"} -> push_string(L, val)
    [] OTHER -> LuaString_to_lua(L, val)

push(L, T, val) == to_lua(L, T, val)

\* A conversion that narrows with a cast (x as T) where the code uses try_from.
checked_wraps(L, T, idx, r) ==
  IF r.kind = "Err" THEN r ELSE Ok(r.val % Pow2(TypeBits(T)))

\* the range check of the narrower integer types (the conversion error of
\* traits.rs is built without a backtrace)
checked(L, T, idx, r) ==
  IF r.kind = "Err" \/ T \in {"u64", "i64"} \/ InRange(T, r.val)
  THEN r
  ELSE Err(conversion_from_lua(type_at(L, idx), T, <<>>))

from_lua(L, T, idx) ==
  CASE T \in UnsignedTypes -> [L |-> L, r |-> checked(L, T, idx, to_unsigned(L, idx))]
    [] T \in SignedTypes -> [L |-> L, r |-> checked(L, T, idx, to_integer(L, idx))]
    [] T \in {"f32", "f64"} -> [L |-> L, r |-> to_number(L, idx)]
    [] T = "bool" -> [L |-> L, r |-> Ok(to_boolean(L, idx))]
    [] T = "String" -> to_string(L, idx)
    [] OTHER -> LuaString_from_lua(L, idx)

\* the end of State::at: the top is set back and the result returned
restore_top(top, result) == [L |-> set_top(result.L, top), r |-> result.r]

at(L, T, idx) == restore_top(get_top(L), from_lua(L, T, idx))

(***************************************************************************)
(* Loading chunks: State::load_string and State::load_stream.              *)
(***************************************************************************)
\* LoadError
Syntax(msg) == [kind |-> "Syntax", val |-> msg]
Io(err) == [kind |-> "Io", val |-> err]

\* the process ends where it stands (a panic that cannot unwind)
Abort == [kind |-> "Abort", val |-> 0]

\* Result::unwrap
unwrap(r) ==
  IF r.kind = "Ok" THEN r ELSE Unwind("called Result::unwrap() on an Err value")

\* io::Read::read_to_end on the stream: all its bytes, or the error of the source
read_to_end(stream) ==
  IF stream.error = "" THEN Ok(stream.bytes) ELSE Err(Io(stream.error))

\* extern "C" fn reader: what it hands the VM, or the panic of its unwrap
reader(stream) == unwrap(read_to_end(stream))

\* the chunk texts the VM's parser accepts, of those the model loads
ValidChunks == {"return 1"}

\* lua_load on the bytes the reader gave: the compiled function is pushed,
\* or the parser's message
lua_load(L, bytes, chunkname) ==
  IF bytes \in ValidChunks
  THEN [L |-> lua_push(L, FnV("chunk", <<>>)), status |-> "LUA_OK"]
  ELSE [L |-> push_string(L, chunkname \o ":1: unexpected symbol near <eof>"),
        status |-> "LUA_ERRSYNTAX"]

\* the LUA_ERRSYNTAX arm: a is what self.at(LuaIndex::Stack(-1)) gave
load_error(a) == [L |-> a.L, r |-> Err(Syntax(unwrap(a.r).val))]

lua_to_rust_load_result(L, result) ==
  IF result = "LUA_OK"
  THEN [L |-> L, r |-> Ok(Unit)]
  ELSE load_error(at(L, "String", StackIdx(-1)))

\* load_stream once lua_load has returned ld
load_result(ld) == lua_to_rust_load_result(ld.L, ld.status)

\* data is what the reader callback came to when lua_load invoked it
load_read(L, data, chunkname) ==
  IF data.kind = "Panic"
  THEN [L |-> L, r |-> data]
  ELSE load_result(lua_load(L, data.val, chunkname))

load_stream(L, stream, chunkname) == load_read(L, reader(stream), chunkname)

\* the bytes of the string are a stream that cannot fail
load_string(L, str, chunkname) == load_stream(L, [bytes |-> str, error |-> ""], chunkname)


(***************************************************************************)
(* Ownership: the wrappers of the VM instance, the finalizer of a userdata *)
(* block, and the teardown of the instance.                                *)
(***************************************************************************)
\* What has happened to the instance and to the host values given to it:
\* how often lua_close ran, how often the finalizer ran on each value, the
\* values the host pushed as userdata and moved back, and the references
\* userdata_at gave that the host still holds.
NoLife ==
  [closed |-> 0, finalized |-> [v \in {} |-> 0], pushed |-> {}, moved |-> {}, held |-> {}]

\* A wrapper that holds the instance and frees it (State::new returns this one).
owning_state == [should_free |-> TRUE]

\* A wrapper made by a callback that frees the instance when it is dropped.
from_raw_state_owning == [should_free |-> TRUE]

\* State::from_raw_state: the wrapper a callback makes of the VM it runs in
from_raw_state == [should_free |-> FALSE]

\* the block at address a has a metatable that carries a __gc finalizer
has_finalizer(L, a) ==
  L.ud[a].mt # 0 /\ StrKey("__gc") \in DOMAIN L.tabs[L.ud[a].mt].kv

\* gc::<T> (ptr::drop_in_place) runs once on each block of freed that has a
\* finalizer: the count of every value dropped goes up by the blocks holding it
gc(L, freed) ==
  LET due == {a \in freed : has_finalizer(L, a)}
      fin == L.life.finalized
  IN [v \in DOMAIN fin \cup {L.ud[a].value : a \in due} |->
        (IF v \in DOMAIN fin THEN fin[v] ELSE 0)
          + Cardinality({a \in due : L.ud[a].value = v})]

\* lua_close: the finalizer of every block that has one runs and the
\* instance is freed (what it held is left as it was: nothing reads it after)
lua_close(L) ==
  [L EXCEPT !.life.closed = @ + 1, !.life.finalized = gc(L, DOMAIN L.ud)]

\* impl Drop for State
drop(L, state) == IF state.should_free THEN lua_close(L) ELSE L

(***************************************************************************)
(* Native closures, the error handler and the protected call.              *)
(***************************************************************************)
\* A push_closure that leaves the function block above the values.
push_closure_block_last(L, f, n) ==
  LET L1 == lua_newuserdata(L, [type_id |-> "", value |-> f, mt |-> 0])
      n1 == n + 1
      top == Len(L1.stack)
  IN [L1 EXCEPT !.stack = Append(SubSeq(@, 1, top - n1),
                                 FnV("func", SubSeq(@, top - n1 + 1, top)))]

push_closure(L, f, n) ==
  LET L1 == lua_newuserdata(L, [type_id |-> "", value |-> f, mt |-> 0])
      n1 == n + 1
      L2 == IF n1 > 1 THEN insert(L1, 0 - n1) ELSE L1
      top == Len(L2.stack)
      \* lua_pushcclosure(func, n1): the n1 values on top become the upvalues
  IN [L2 EXCEPT !.stack = Append(SubSeq(@, 1, top - n1),
                                 FnV("func", SubSeq(@, top - n1 + 1, top)))]

push_function(L, f) == push_closure(L, f, 0)

\* Coerce to RunError: message is what at::<String>(1) gave
coerce(message) ==
  push_userdata(message.L, "RunError",
                RunError_new(IF message.r.kind = "Ok" THEN message.r.val
                             ELSE "unknown error", backtrace(message.L)))

\* A handler that coerces every error value, tagged or not.
errfunc_always_wraps(L) == coerce(at(L, "String", StackIdx(1)))

\* A handler that gives a run error passing through it a new backtrace.
errfunc_recaptures(L) ==
  IF is_userdata_of_type(L, "RunError", StackIdx(1))
  THEN push_userdata(L, "RunError",
                     RunError_new(L.ud[L.stack[1].v].value.message, backtrace(L)))
  ELSE IF is_userdata_of_type(L, "Box<Any+Send>", StackIdx(1))
  THEN L
  ELSE coerce(at(L, "String", StackIdx(1)))

\* The handler State::new stores as errfunc; it runs in a frame of its own
\* whose one argument is the error value, and returns the value on top.
errfunc(L) ==
  drop(IF is_userdata_of_type(L, "RunError", StackIdx(1))
          \/ is_userdata_of_type(L, "Box<Any+Send>", StackIdx(1))
       THEN L
       ELSE coerce(at(L, "String", StackIdx(1))),
       from_raw_state)

\* A trampoline that turns a caught unwinding into a run error.
func_panic_as_error(L, result) ==
  CASE result.kind = "Ok" -> [raised |-> FALSE, L |-> L, n |-> as_c_int(result.val)]
    [] result.kind = "Err" ->
         [raised |-> TRUE, L |-> push_userdata(L, "RunError", result.val), n |-> 0]
    [] OTHER ->
         [raised |-> TRUE,
          L |-> push_userdata(L, "RunError", RunError_new(result.val, <<>>)), n |-> 0]

\* The trampoline push_closure wraps around the host function: result is
\* what f(&mut state) gave, Ok(n), Err(e) or an unwinding caught here.  Its
\* wrapper is dropped when it returns; lua_error leaves without dropping it.
func(L, result) ==
  CASE result.kind = "Ok" ->
         [raised |-> FALSE, L |-> drop(L, from_raw_state), n |-> as_c_int(result.val)]
    [] result.kind = "Err" ->
         [raised |-> TRUE, L |-> push_userdata(L, "RunError", result.val), n |-> 0]
    [] OTHER ->
         [raised |-> TRUE, L |-> push_userdata(L, "Box<Any+Send>", result.val), n |-> 0]

\* State::call up to lua_pcall
call_enter(L, nargs, results) ==
  LET nresults == IF results.k = "Num" THEN as_c_int(results.val) ELSE LUA_MULTRET
      L1 == get_internal_registry(L)
      L2 == get_field(L1, StackIdx(-1), "errfunc")
      L3 == remove(L2, -2)
      errfunc_idx == to_stack(abs_index(L3, StackIdx(0 - nargs - 2)))
      L4 == insert(L3, errfunc_idx)
  IN [L |-> L4, nargs |-> nargs, nresults |-> nresults, errfunc_idx |-> errfunc_idx]

\* err is what userdata_move(-1) gave: the record is popped and returned
pop_err(err) == [L |-> pop(err.L, 1), r |-> Err(err.r.val)]
\* ... or handed to the caller as a run error of its own
pop_payload_as_err(err) == [L |-> pop(err.L, 1), r |-> Err(RunError_new(err.r.val, <<>>))]
\* ... or resumed as the unwinding it was
pop_resume_unwind(err) == [L |-> pop(err.L, 1), r |-> Unwind(err.r.val)]

\* A conversion that leaves the run error it took on the stack.
run_result_keeps_error(L, result) ==
  CASE result = "LUA_OK" -> [L |-> L, r |-> Ok(Unit)]
    [] result \in {"LUA_ERRRUN", "LUA_ERRGCMM"} ->
         IF is_userdata_of_type(L, "RunError", StackIdx(-1))
         THEN LET err == userdata_move(L, "RunError", StackIdx(-1))
              IN [L |-> err.L, r |-> Err(err.r.val)]
         ELSE IF is_userdata_of_type(L, "Box<Any+Send>", StackIdx(-1))
         THEN pop_resume_unwind(userdata_move(L, "Box<Any+Send>", StackIdx(-1)))
         ELSE [L |-> L, r |-> Unwind("unreachable")]
    [] OTHER -> [L |-> L, r |-> Unwind(result)]

\* A conversion that leaves the payload it took on the stack.
run_result_keeps_payload(L, result) ==
  CASE result = "LUA_OK" -> [L |-> L, r |-> Ok(Unit)]
    [] result \in {"LUA_ERRRUN", "LUA_ERRGCMM"} ->
         IF is_userdata_of_type(L, "RunError", StackIdx(-1))
         THEN pop_err(userdata_move(L, "RunError", StackIdx(-1)))
         ELSE IF is_userdata_of_type(L, "Box<Any+Send>", StackIdx(-1))
         THEN LET err == userdata_move(L, "Box<Any+Send>", StackIdx(-1))
              IN [L |-> err.L, r |-> Unwind(err.r.val)]
         ELSE [L |-> L, r |-> Unwind("unreachable")]
    [] OTHER -> [L |-> L, r |-> Unwind(result)]

lua_to_rust_run_result(L, result) ==
  CASE result = "LUA_OK" -> [L |-> L, r |-> Ok(Unit)]
    [] result \in {"LUA_ERRRUN", "LUA_ERRGCMM"} ->
         IF is_userdata_of_type(L, "RunError", StackIdx(-1))
         THEN pop_err(userdata_move(L, "RunError", StackIdx(-1)))
         ELSE IF is_userdata_of_type(L, "Box<Any+Send>", StackIdx(-1))
         THEN pop_resume_unwind(userdata_move(L, "Box<Any+Send>", StackIdx(-1)))
         ELSE [L |-> L, r |-> Unwind("unreachable")]
    [] OTHER -> [L |-> L, r |-> Unwind(result)]

\* A return from the call that leaves the handler's slot in place.
call_leave_keeps_handler(L, errfunc_idx, result) ==
  lua_to_rust_run_result(L, result)

\* A return from the call that removes the slot on top, not the handler's.
call_leave_removes_top(L, errfunc_idx, result) ==
  lua_to_rust_run_result(remove(L, -1), result)

\* State::call from the return of lua_pcall
call_leave(L, errfunc_idx, result) ==
  lua_to_rust_run_result(remove(L, errfunc_idx), result)

\* lua_pcall's adjustment of the values a callee returned to nresults
adjust_results(rets, nresults) ==
  IF nresults = LUA_MULTRET
  THEN rets
  ELSE [i \in 1..nresults |-> IF i <= Len(rets) THEN rets[i] ELSE Nil]

\* lua_pcall, the callee returned: its results follow the handler's slot
pcall_ok(caller, rets, nresults) ==
  [caller EXCEPT !.stack = @ \o adjust_results(rets, nresults)]

\* lua_pcall, an error was raised in frame R with value errval: the handler
\* runs on top of the frame that raised, and what it returns is left in the
\* caller's stack where the callable was
handler_returns(caller, H) ==
  [H EXCEPT !.stack = Append(caller.stack, H.stack[Len(H.stack)]),
            !.up = caller.up, !.ci = caller.ci]

pcall_err(caller, R, errval) ==
  handler_returns(caller, errfunc([R EXCEPT !.stack = <<errval>>, !.up = <<>>,
                                            !.ci = <<CFrame("errfunc")>> \o R.ci]))

\* the name the VM's error messages give a value's type
lua_typename(val) ==
  CASE val.t = "nil" -> "nil"
    [] val.t = "bool" -> "boolean"
    [] val.t = "int" -> "number"
    [] val.t = "str" -> "string"
    [] val.t = "tab" -> "table"
    [] val.t = "ud" -> "userdata"
    [] OTHER -> "function"

(***************************************************************************)
(* State::new.                                                             *)
(***************************************************************************)
State_new ==
  \* lua_newstate leaves the panic function unset, and the call of
  \* lua_atpanic is commented out (UNDONE: Set the panic handler)
  LET L0 == [stack |-> <<>>, up |-> <<>>, ci |-> <<>>, ud |-> EmptyHeap,
             strs |-> EmptyHeap, tabs |-> <<[kv |-> EmptyTable, mt |-> 0]>>,
             life |-> NoLife, panicf |-> "NULL"]
      L1 == new_table(L0)
      \* errfunc
      L2 == lua_setfield(lua_push(L1, FnV("errfunc", <<>>)), -2, "errfunc")
      \* string
      L3 == lua_setfield(new_table(L2), -2, "string")
      \* mt
      L4 == lua_setfield(new_table(L3), -2, "mt")
      \* user
      L5 == lua_setfield(new_table(L4), -2, "user")
      \* save to registry
      top == Len(L5.stack)
  IN [L5 EXCEPT !.stack = SubSeq(@, 1, top - 1),
                !.tabs[RegistryTable].kv = TSet(@, ExtraSpaceKey, L5.stack[top])]

(***************************************************************************)
(* The state: the frames of the host (frames[1]) and of the native         *)
(* callbacks running on top of it, the VM's heap, and what the host has    *)
(* seen: the last operation, whether it caught a fault, and the handles    *)
(* intern gave it.                                                         *)
(***************************************************************************)
VARIABLES frames, ud, tabs, strs, last, caught, interned, life

vars == <<frames, ud, tabs, strs, last, caught, interned, life>>

NoCall == [nargs |-> 0, nresults |-> 0, errfunc_idx |-> 0, results |-> [k |-> "None", val |-> 0]]
NoRes == [kind |-> "None", val |-> 0]
Frame(stack, up) == [stack |-> stack, up |-> up, call |-> NoCall, res |-> NoRes, org |-> <<>>]

Num(k) == [k |-> "Num", val |-> k]
MultRet == [k |-> "MultRet", val |-> 0]

depth == Len(frames)

\* the VM frames under frame i, innermost first
CiOf(i) == [level \in 1..(i - 1) |-> CFrame("func")]

\* the VM as the frame i sees it
LOf(i) ==
  [stack |-> frames[i].stack, up |-> frames[i].up, ci |-> CiOf(i),
   ud |-> ud, tabs |-> tabs, strs |-> strs, life |-> life, panicf |-> State_new.panicf]

Cur == LOf(depth)

\* the slots of the VM's stack in use
RECURSIVE SlotsOf(_)
SlotsOf(fr) == IF fr = <<>> THEN 0 ELSE Len(fr[1].stack) + SlotsOf(Tail(fr))
Slots == SlotsOf(frames)

\* a callback whose State::call unwound is unwinding itself
Running == depth = 1 \/ frames[depth].res.kind # "Panic"

\* The addresses of kind t ("ud" or "str") a value refers to.
RECURSIVE Refs(_, _)
Refs(val, t) ==
  CASE val.t = "fn" -> UNION {Refs(val.v.up[i], t) : i \in DOMAIN val.v.up}
    [] val.t = "ud" /\ t = "ud" -> {val.v}
    [] val.t = "str" /\ t = "str" -> {val.a}
    [] OTHER -> {}

\* The addresses the stacks, the upvalues and the tables refer to.
Reachable(fr, tb, t) ==
  UNION ({UNION {Refs(fr[i].stack[j], t) : j \in DOMAIN fr[i].stack} : i \in DOMAIN fr}
         \cup {UNION {Refs(fr[i].up[j], t) : j \in DOMAIN fr[i].up} : i \in DOMAIN fr}
         \cup {UNION {Refs(tb[i].kv[k], t) : k \in DOMAIN tb[i].kv} : i \in DOMAIN tb})

\* The collector: an object nothing refers to is freed (a userdata block's
\* __gc finalizer drops the value in it), and its address can be used again.
lua_gc(fr, L) ==
  LET live == Reachable(fr, L.tabs, "ud")
  IN [ud |-> [a \in DOMAIN L.ud \cap live |-> L.ud[a]],
      strs |-> [a \in DOMAIN L.strs \cap Reachable(fr, L.tabs, "str") |-> L.strs[a]],
      life |-> [L.life EXCEPT !.finalized = gc(L, DOMAIN L.ud \ live)]]

\* an operation ends with the frames fr and the VM as L has it
Commit(fr, L, l) ==
  \E swept \in {lua_gc(fr, L)} :
     /\ frames' = fr
     /\ ud' = swept.ud
     /\ strs' = swept.strs
     /\ tabs' = L.tabs
     /\ life' = swept.life
     /\ last' = l

\* the running frame goes on with the VM as L
Step(L, l) ==
  Commit([frames EXCEPT ![depth].stack = L.stack, ![depth].up = L.up,
                        ![depth].res = NoRes, ![depth].org = <<>>], L, l)

Init ==
  /\ frames = <<Frame(State_new.stack, <<>>)>>
  /\ ud = State_new.ud
  /\ tabs = State_new.tabs
  /\ strs = State_new.strs
  /\ last = [op |-> "new"]
  /\ caught = FALSE
  /\ interned = {}
  /\ life = State_new.life

(***************************************************************************)
(* The values the host and its callbacks work with.                        *)
(***************************************************************************)
IntInputs == {1, 2}
ReadInputs == {2}
StringInputs == {"10"}
Messages == {"Test error~", "oops"}
Payloads == {"Test panic~"}
RawErrors == {"attempt to index a nil value"}
CallResults == {Num(0), Num(2), MultRet}
HostTypes == {"A", "B"}
HostValues == {7}
InternInputs == {"test", "a string of forty-one bytes, a long one.."}
StackIndices == {StackIdx(i) : i \in {-2, -1, 1, 3}}
Chunks == {"return 1", "return +"}
ChunkNames == {"chunk"}
Streams == {[bytes |-> c, error |-> e] : c \in Chunks, e \in {"", "broken pipe"}}
FaultOutcomes == {"unwind", "abort"}
NarrowTypes == {"u8", "u16", "u32", "i8", "i16", "i32"}
ConvertInputs == {-129, -9, -1, 0, 15, 16, 127, 128, 255, 256}
\* the values the host owns, each of one type
Owned == {[T |-> "A", value |-> 1], [T |-> "B", value |-> 2]}
\* result counts up to the largest a u32 holds (at the model's width)
WideResults == {Num(1), Num(Pow2(CIntBits) - 1), MultRet}
TopInputs == (0 - MaxStack - 1)..MaxStack
HandleInputs == {"test", "10"}
HandleIndices == {StackIdx(i) : i \in {-1, 1}}
\* what lua_getinfo("Sln") tells of an active function: a script function
\* called by a global name, the main chunk, a host function, a library
\* function called by name, a function with no name, one without line info
Activations ==
  {[fn |-> "f", what |-> "Lua", short_src |-> "test", currentline |-> 3,
    namewhat |-> "global", name |-> "f", linedefined |-> 2],
   [fn |-> "chunk", what |-> "main", short_src |-> "test", currentline |-> 5,
    namewhat |-> "", name |-> "", linedefined |-> 0],
   CFrame("func"),
   [fn |-> "print", what |-> "C", short_src |-> "[C]", currentline |-> -1,
    namewhat |-> "global", name |-> "print", linedefined |-> -1],
   [fn |-> "anon", what |-> "Lua", short_src |-> "test", currentline |-> 4,
    namewhat |-> "", name |-> "", linedefined |-> 4],
   [fn |-> "stripped", what |-> "Lua", short_src |-> "?", currentline |-> -1,
    namewhat |-> "", name |-> "", linedefined |-> -1]}
\* the VM's active functions, innermost first: a chunk and what it calls
CallStacks == UNION {[1..n -> Activations] : n \in 1..(MaxDepth + 1)}
BlockIndices == {StackIdx(-1), UpvalueIdx(0), UpvalueIdx(1)}
ForeignTags == {"", "RunError"}
UnsignedInputs == {0, 15, 255, Pow2(LuaIntBits - 1) - 1, Pow2(LuaIntBits - 1), Pow2(LuaIntBits) - 1}

(***************************************************************************)
(* Stack operations of the running frame.                                  *)
(***************************************************************************)
\* a frame pushes an argument or a result
PushInteger(n) ==
  /\ Running
  /\ Slots < MaxStack
  /\ Step(push(Cur, "i64", n), [op |-> "push"])
  /\ UNCHANGED <<caught, interned>>

\* the host pushes a value for its reads: state.push(val) for val: T
Push(T, val) ==
  /\ Len(Cur.stack) < MaxTop
  /\ Cardinality(DOMAIN strs) < MaxStr
  /\ Step(push(Cur, T, val), [op |-> "push", T |-> T, val |-> val, pre |-> Cur.stack])
  /\ UNCHANGED <<caught, interned>>

PushFunction ==
  /\ Running
  /\ Slots < MaxStack
  /\ Cardinality(DOMAIN ud) < MaxUd
  /\ Step(push_function(Cur, "test_function"), [op |-> "push_function"])
  /\ UNCHANGED <<caught, interned>>

Pop ==
  /\ Running
  /\ Len(Cur.stack) >= 1
  /\ Step(pop(Cur, 1), [op |-> "pop"])
  /\ UNCHANGED <<caught, interned>>

(***************************************************************************)
(* State::call.  The call of a native closure opens a frame; the frame     *)
(* ends when the host function returns Ok(n) or Err(e), unwinds, or when a *)
(* VM primitive it uses raises an error.                                   *)
(***************************************************************************)
\* what the host learns of a State::call that returned
CallRecord(i, c, base, fin, status, how, given, rets, org) ==
  [op |-> "call", how |-> how, given |-> given, rets |-> rets, frame |-> i,
   h |-> c.errfunc_idx - 1, base |-> base, nargs |-> c.nargs, results |-> c.results,
   nresults |-> c.nresults, r |-> fin.r, org |-> org, status |-> status]

\* the State::call pending in frame i returns; after is the VM as
\* lua_pcall left it and status what lua_pcall returned
CallReturns(i, after, status, how, given, rets, org) ==
  LET c == frames[i].call
  IN \E fin \in {call_leave(after, c.errfunc_idx, status)} :
     /\ Commit(Append(SubSeq(frames, 1, i - 1),
                      [frames[i] EXCEPT !.stack = fin.L.stack, !.up = fin.L.up,
                                        !.call = NoCall, !.res = fin.r,
                                        !.org = IF fin.r.kind = "Err" THEN org ELSE <<>>]),
               fin.L,
               CallRecord(i, c, SubSeq(frames[i].stack, 1, c.errfunc_idx - 1), fin,
                          status, how, given, rets, org))
     /\ caught' = (caught \/ (i = 1 /\ fin.r.kind = "Panic"))
     /\ UNCHANGED interned

\* the caller of the running frame, with the heap as L has it
CallerWith(L) ==
  [L EXCEPT !.stack = frames[depth - 1].stack, !.up = frames[depth - 1].up,
            !.ci = CiOf(depth - 1)]

\* the callable is a native closure: lua_pcall runs the trampoline
CallNative(nargs, results) ==
  /\ Running
  /\ depth <= MaxDepth
  /\ Slots < MaxStack
  /\ Len(Cur.stack) >= nargs + 1
  /\ \E e \in {call_enter(Cur, nargs, results)} :
     LET top == Len(e.L.stack)
         fn == e.L.stack[e.errfunc_idx + 1]
     IN /\ fn.t = "fn" /\ fn.v.f = "func"
        /\ e.nresults # LUA_MULTRET => Slots - nargs - 1 + e.nresults <= MaxStack
        /\ Commit(Append([frames EXCEPT ![depth].stack = SubSeq(e.L.stack, 1, e.errfunc_idx),
                                        ![depth].call = [nargs |-> e.nargs, nresults |-> e.nresults,
                                                         errfunc_idx |-> e.errfunc_idx,
                                                         results |-> results],
                                        ![depth].res = NoRes, ![depth].org = <<>>],
                         Frame(SubSeq(e.L.stack, e.errfunc_idx + 2, top), fn.v.up)),
                  e.L, [op |-> "enter", fn |-> Len(Cur.stack) - nargs])
        /\ UNCHANGED <<caught, interned>>

\* what the host function gave the trampoline ends the running frame
Return(result, how, org) ==
  \E t \in {func(Cur, result)} :
    LET n == Len(t.L.stack)
        c == frames[depth - 1].call
        rets == IF t.raised THEN <<>> ELSE SubSeq(t.L.stack, n - t.n + 1, n)
        \* the error or the payload the host function gave, if it gave one
        given == IF t.raised THEN result.val ELSE ""
    IN \E after \in {IF t.raised
                     THEN pcall_err(CallerWith(t.L), t.L, t.L.stack[n])
                     ELSE pcall_ok(CallerWith(t.L), rets, c.nresults)} :
         CallReturns(depth - 1, after, IF t.raised THEN "LUA_ERRRUN" ELSE "LUA_OK",
                     how, given, rets, org)

\* the host function pushed its results and returns Ok(n)
ReturnOk(n) ==
  /\ Running /\ depth >= 2
  /\ n <= Len(Cur.stack)
  /\ frames[depth - 1].call.nresults = LUA_MULTRET
       => Slots - Len(Cur.stack) - 1 + n <= MaxStack
  /\ Return(Ok(n), "Ok", <<>>)

\* the host function returns Err(RunError::new(m, state.backtrace()))
ReturnErr(m) ==
  /\ Running /\ depth >= 2
  /\ Cardinality(DOMAIN ud) < MaxUd
  /\ Return(Err(RunError_new(m, backtrace(Cur))), "Err", backtrace(Cur))

\* the host function hands on the error of its own State::call (try!)
Propagate ==
  /\ Running /\ depth >= 2
  /\ Cardinality(DOMAIN ud) < MaxUd
  /\ frames[depth].res.kind = "Err"
  /\ Return(frames[depth].res, "Propagate", frames[depth].org)

\* the host function panics
Panic(payload) ==
  /\ Running /\ depth >= 2
  /\ Cardinality(DOMAIN ud) < MaxUd
  /\ Return(Unwind(payload), "Panic", <<>>)

\* the panic State::call resumed unwinds the host function that called it
Unwinding ==
  /\ ~Running
  /\ Cardinality(DOMAIN ud) < MaxUd
  /\ Return(frames[depth].res, "Unwinding", <<>>)

\* a VM primitive the host function uses raises a VM error (a message string)
RaiseRaw(msg) ==
  /\ Running /\ depth >= 2
  /\ Cardinality(DOMAIN ud) < MaxUd
  /\ Cardinality(DOMAIN strs) < MaxStr
  /\ \E R \in {new_string(Cur, msg)} :
       LET H == [R.L EXCEPT !.ci = <<CFrame("errfunc")>> \o @]
       IN CallReturns(depth - 1, pcall_err(CallerWith(R.L), R.L, R.val), "LUA_ERRRUN",
                      "Raw", msg, <<>>, backtrace(H))

\* a full userdata made by a library of the VM (a file handle of io), not by
\* push_userdata: where a Userdata<T> has its type_id the block has bytes of
\* its own, and tag is the TypeId they compare equal to ("" for none)
ForeignBytes == RunError_new("<bytes of the block>", <<>>)
PushForeign(tag) ==
  /\ Running /\ depth >= 2
  /\ Slots < MaxStack
  /\ Cardinality(DOMAIN ud) < MaxUd
  /\ Step(lua_newuserdata(Cur, [type_id |-> tag, value |-> ForeignBytes, mt |-> 0]),
          [op |-> "push_foreign"])
  /\ UNCHANGED <<caught, interned>>

PushNil ==
  /\ Running
  /\ Slots < MaxStack
  /\ Step(push_nil(Cur), [op |-> "push_nil"])
  /\ UNCHANGED <<caught, interned>>

\* the function running raises the value on its top (error(v) in a script)
RaiseTop ==
  /\ Running /\ depth >= 2
  /\ Len(Cur.stack) >= 1
  /\ Cardinality(DOMAIN ud) < MaxUd
  /\ Cardinality(DOMAIN strs) < MaxStr
  /\ LET errval == Cur.stack[Len(Cur.stack)]
         H == [Cur EXCEPT !.ci = <<CFrame("errfunc")>> \o @]
     IN \E after \in {pcall_err(CallerWith(Cur), Cur, errval)} :
          CallReturns(depth - 1, after, "LUA_ERRRUN", "Error", errval, <<>>, backtrace(H))

\* the collector, run by an allocation of the function running, calls a __gc
\* metamethod that raises msg: the VM throws LUA_ERRGCMM with a message of
\* its own and does not call the message handler of lua_pcall
FinalizerRaises(msg) ==
  /\ Running /\ depth >= 2
  /\ Slots < MaxStack
  /\ Cardinality(DOMAIN strs) < MaxStr
  /\ \E R \in {new_string(Cur, "error in __gc metamethod (" \o msg \o ")")} :
     \E after \in {[CallerWith(R.L) EXCEPT !.stack = Append(@, R.val)]} :
       CallReturns(depth - 1, after, "LUA_ERRGCMM", "Gc", msg, <<>>, <<>>)

\* the value called is no function: the VM raises its error in the caller
CallNonFunction(nargs, results) ==
  /\ Running
  /\ Len(Cur.stack) >= nargs + 1
  /\ Cardinality(DOMAIN ud) < MaxUd
  /\ Cardinality(DOMAIN strs) < MaxStr
  /\ value_at(Cur, StackIdx(0 - nargs - 1)).t # "fn"
  /\ \E e \in {call_enter(Cur, nargs, results)} :
     \E R \in {new_string(e.L, "attempt to call a "
                               \o lua_typename(e.L.stack[e.errfunc_idx + 1]) \o " value")} :
     \E fin \in {call_leave(pcall_err([R.L EXCEPT !.stack = SubSeq(e.L.stack, 1, e.errfunc_idx)],
                                      R.L, R.val),
                            e.errfunc_idx, "LUA_ERRRUN")} :
     LET fn == e.L.stack[e.errfunc_idx + 1]
         msg == R.val.v
         H == [R.L EXCEPT !.ci = <<CFrame("errfunc")>> \o @]
         c == [nargs |-> e.nargs, nresults |-> e.nresults, errfunc_idx |-> e.errfunc_idx,
               results |-> results]
     IN /\ fn.t # "fn"
        /\ Commit([frames EXCEPT ![depth].stack = fin.L.stack, ![depth].up = fin.L.up,
                                 ![depth].res = fin.r,
                                 ![depth].org = IF fin.r.kind = "Err" THEN backtrace(H) ELSE <<>>],
                  fin.L,
                  CallRecord(depth, c, SubSeq(e.L.stack, 1, e.errfunc_idx - 1), fin,
                             "LUA_ERRRUN", "Raw", msg, <<>>, backtrace(H)))
        /\ caught' = (caught \/ (depth = 1 /\ fin.r.kind = "Panic"))
        /\ UNCHANGED interned

(***************************************************************************)
(* Userdata and typed reads.                                               *)
(***************************************************************************)
PushUserdata(T, value) ==
  /\ Len(Cur.stack) < MaxTop
  /\ Cardinality(DOMAIN ud) < MaxUd
  /\ Step(push_userdata(Cur, T, value), [op |-> "push_userdata", T |-> T, value |-> value])
  /\ UNCHANGED <<caught, interned>>

UserdataAt(T, idx) ==
  /\ Step(Cur, [op |-> "userdata_at", T |-> T, idx |-> idx, pre |-> Cur.stack,
                r |-> userdata_at(Cur, T, idx)])
  /\ UNCHANGED <<caught, interned>>

\* (on an index that holds no value lua_setmetatable finds the nil it was
\* given, or no value, and only pops)
UserdataMove(T, idx) ==
  /\ \E m \in {userdata_move(Cur, T, idx)} :
        Step(m.L, [op |-> "userdata_move", T |-> T, idx |-> idx, pre |-> Cur.stack,
                   r |-> m.r])
  /\ UNCHANGED <<caught, interned>>

At(T, idx) ==
  /\ Cardinality(DOMAIN strs) < MaxStr
  /\ \E a \in {at(Cur, T, idx)} :
        Step(a.L, [op |-> "at", T |-> T, ok |-> a.r.kind = "Ok", pre |-> Cur.stack])
  /\ UNCHANGED <<caught, interned>>

\* state.at::<T>(idx) for an integer type T, with what it returned
AtInteger(T, idx) ==
  /\ \E a \in {at(Cur, T, idx)} :
        Step(a.L, [op |-> "at_integer", T |-> T, idx |-> idx, pre |-> Cur.stack, r |-> a.r])
  /\ UNCHANGED <<caught, interned>>

(***************************************************************************)
(* Interned strings.                                                       *)
(***************************************************************************)
Intern(s) ==
  /\ Cardinality(DOMAIN strs) < MaxStr
  /\ \E ls \in {intern(Cur, s)} :
        /\ Step(ls.L, [op |-> "intern", s |-> s, h |-> ls.r, pre |-> Cur.stack])
        /\ interned' = interned \cup {[s |-> s, h |-> ls.r]}
  /\ UNCHANGED caught

\* state.push(ls) for a handle ls the host holds
PushHandle(p) ==
  /\ Len(Cur.stack) < MaxTop
  /\ Step(push(Cur, "LuaString", p.h),
          [op |-> "push_handle", s |-> p.s, h |-> p.h, pre |-> Cur.stack])
  /\ UNCHANGED <<caught, interned>>

\* let h = state.at::<LuaString>(idx): the host keeps the handle, noted
\* with the string that was at idx
AtLuaString(idx) ==
  /\ Cardinality(DOMAIN strs) < MaxStr
  /\ \E a \in {at(Cur, "LuaString", idx)}, str \in {to_string(Cur, idx).r} :
        /\ Step(a.L, [op |-> "at_handle", idx |-> idx, pre |-> Cur.stack, r |-> a.r,
                      s |-> IF str.kind = "Ok" THEN str.val ELSE ""])
        /\ interned' = IF a.r.kind = "Ok"
                        THEN interned \cup {[s |-> str.val, h |-> a.r.val]}
                        ELSE interned
        /\ Cardinality(interned') <= MaxStr
  /\ UNCHANGED caught

(***************************************************************************)
(* The registry table of the program.                                      *)
(***************************************************************************)
\* state.get_registry()
GetRegistry ==
  /\ Slots < MaxStack
  /\ Step(get_registry(Cur), [op |-> "get_registry", pre |-> Cur.stack])
  /\ UNCHANGED <<caught, interned>>

\* state.raw_set(idx) on a table of the stack, an integer key and an
\* integer value above it
RawSet(idx) ==
  /\ Len(Cur.stack) >= 3
  /\ value_at(Cur, idx).t = "tab"
  /\ value_at(Cur, StackIdx(-2)).t = "int"
  /\ value_at(Cur, StackIdx(-1)).t = "int"
  /\ Step(raw_set(Cur, idx), [op |-> "raw_set", idx |-> idx, pre |-> Cur.stack])
  /\ UNCHANGED <<caught, interned>>

\* state.raw_get(idx) on a table of the stack, the key on top
RawGet(idx) ==
  /\ Len(Cur.stack) >= 2
  /\ value_at(Cur, idx).t = "tab"
  /\ Step(raw_get(Cur, idx), [op |-> "raw_get", idx |-> idx, pre |-> Cur.stack])
  /\ UNCHANGED <<caught, interned>>

(***************************************************************************)
(* Loading chunks.                                                         *)
(***************************************************************************)
\* a load whose reader panicked under the VM has ended the host's use of it
Faulted == last.op \in {"load", "unprotected"} /\ last.r.kind \in {"Panic", "Abort"}

LoadString(str, chunkname) ==
  /\ ~Faulted
  /\ Slots < MaxStack
  /\ Cardinality(DOMAIN strs) < MaxStr
  /\ \E ld \in {load_string(Cur, str, chunkname)} :
        Step(ld.L, [op |-> "load", error |-> "", pre |-> Cur.stack, r |-> ld.r])
  /\ UNCHANGED <<caught, interned>>

\* The reader panics inside a callback the VM invoked from C: the build
\* decides whether the unwinding crosses the VM's frames or the process
\* aborts, so outcome is either.
LoadStream(stream, chunkname, outcome) ==
  /\ ~Faulted
  /\ Slots < MaxStack
  /\ Cardinality(DOMAIN strs) < MaxStr
  /\ \E ld \in {load_stream(Cur, stream, chunkname)} :
        Step(ld.L, [op |-> "load", error |-> stream.error, pre |-> Cur.stack,
                    r |-> IF ld.r.kind = "Panic" /\ outcome = "abort" THEN Abort ELSE ld.r])
  /\ UNCHANGED <<caught, interned>>

\* the host goes on with the stack (it pushes and pops) unless a load faulted
HostPush(n) == ~Faulted /\ PushInteger(n)
HostPop == ~Faulted /\ Pop

(***************************************************************************)
(* Closures with associated values.                                       *)
(***************************************************************************)
\* state.push_closure(f, n) over n integers the host pushed
PushClosure(n) ==
  /\ Running /\ depth = 1
  /\ Len(Cur.stack) >= n
  /\ \A i \in 1..n : value_at(Cur, StackIdx(0 - i)).t = "int"
  /\ Slots - n < MaxStack
  /\ Cardinality(DOMAIN ud) < MaxUd
  /\ Step(push_closure(Cur, "test_function", n),
          [op |-> "push_closure", n |-> n, pre |-> Cur.stack])
  /\ UNCHANGED <<caught, interned>>

\* inside the callback: state.at::<i64>(LuaIndex::Upvalue(i))
\* is_userdata_of_type::<T>(idx) inside a callback. It takes any full
\* userdata for a Userdata<T> and reads its type_id: a block that has none
\* (type_id "") gives either answer
IsUserdataOfType(T, idx) ==
  /\ Running /\ depth >= 2
  /\ \E v \in {value_at(Cur, idx)} :
     \E tag \in {IF v.t = "ud" THEN Cur.ud[v.v].type_id ELSE "-"} :
     \E r \in (IF tag = "" THEN BOOLEAN ELSE {is_userdata_of_type(Cur, T, idx)}) :
        Step(Cur, [op |-> "is_userdata_of_type", T |-> T, idx |-> idx,
                   block |-> IF v.t = "ud" THEN v.v ELSE 0, type_id |-> tag, r |-> r])
  /\ UNCHANGED <<caught, interned>>

AtUpvalue(i) ==
  /\ Running /\ depth >= 2
  /\ \E a \in {at(Cur, "i64", UpvalueIdx(i))} :
        Step(a.L, [op |-> "at_upvalue", i |-> i, up |-> Cur.up, r |-> [kind |-> a.r.kind,
                   val |-> IF a.r.kind = "Ok" THEN a.r.val ELSE 0]])
  /\ UNCHANGED <<caught, interned>>

(***************************************************************************)
(* The height of the stack.                                                *)
(***************************************************************************)
\* state.set_top(idx) for an acceptable index or 0
SetTop(idx) ==
  /\ 0 - Len(Cur.stack) - 1 <= idx
  /\ Slots - Len(Cur.stack) + idx <= MaxStack
  /\ \E t \in {set_top_asserted(Cur, idx)} :
        Step(t.L, [op |-> "set_top", idx |-> idx, pre |-> Cur.stack, r |-> t.r])
  /\ UNCHANGED <<caught, interned>>

(***************************************************************************)
(* Errors outside every protected call.                                    *)
(***************************************************************************)
\* The VM throws with no protected call active: it calls the panic
\* function if one is set (the one State::new would set panics with this
\* text), and aborts the process otherwise.
lua_throw_unprotected(L, msg) ==
  IF L.panicf = "panic"
  THEN Unwind("PANIC: unprotected error in call to Lua API (" \o msg \o ")")
  ELSE Abort

\* an API function the host uses outside State::call raises a VM error
RaiseUnprotected(msg) ==
  /\ ~Faulted /\ depth = 1
  /\ Step(Cur, [op |-> "unprotected", msg |-> msg, r |-> lua_throw_unprotected(Cur, msg)])
  /\ UNCHANGED <<caught, interned>>

\* state.backtrace() with the functions of ci active in the VM
Backtrace(ci) ==
  /\ last' = [op |-> "backtrace", ci |-> ci, r |-> backtrace([Cur EXCEPT !.ci = ci])]
  /\ UNCHANGED <<frames, ud, tabs, strs, caught, interned, life>>

(***************************************************************************)
(* The life of the instance and of the host values it holds.               *)
(***************************************************************************)
\* the owning wrapper has not been dropped
Alive == life.closed = 0

\* state.push_userdata(value) for a value the host owns: it is moved into
\* the VM, so no value is pushed twice
PushOwned(T, value) ==
  /\ Alive /\ Running
  /\ Slots < MaxStack
  /\ Cardinality(DOMAIN ud) < MaxUd
  /\ value \notin life.pushed
  /\ \E L \in {push_userdata(Cur, T, value)} :
        Step([L EXCEPT !.life.pushed = @ \cup {value}],
             [op |-> "push_userdata", T |-> T, value |-> value])
  /\ UNCHANGED <<caught, interned>>

\* state.userdata_move::<T>(idx), the value it gave noted as moved back, and
\* whether it had been given out before
MoveOut(T, idx) ==
  /\ Alive /\ Running
  /\ \E m \in {userdata_move(Cur, T, idx)} :
        Step([m.L EXCEPT !.life.moved = IF m.r.kind = "Ok" THEN @ \cup {m.r.val} ELSE @],
             [op |-> "userdata_move", T |-> T, idx |-> idx, pre |-> Cur.stack, r |-> m.r,
              again |-> m.r.kind = "Ok" /\ m.r.val \in life.moved])
  /\ UNCHANGED <<caught, interned>>

\* the host drops the owning wrapper (at the end of its scope, or while a
\* panic that came out of State::call unwinds it)
DropState ==
  /\ Alive /\ depth = 1
  /\ \E L \in {drop(Cur, owning_state)} : Step(L, [op |-> "drop"])
  /\ UNCHANGED <<caught, interned>>

\* the owner's own steps, while it holds the wrapper
OwnerPop == Alive /\ Pop
OwnerPushFunction == Alive /\ PushFunction
OwnerCall == Alive /\ CallNative(0, Num(0))

\* what a read through a reference can give: the value while its record is
\* live and not finalized, anything once the value was dropped or the block
\* freed (&'a mut T is not tied to the record)
deref(L, ref) ==
  IF /\ ref.block \in DOMAIN L.ud
     /\ L.ud[ref.block].value = ref.value
     /\ ref.value \notin DOMAIN L.life.finalized
  THEN {[valid |-> TRUE, value |-> ref.value]}
  ELSE {[valid |-> TRUE, value |-> ref.value], [valid |-> FALSE, value |-> 0]}

\* let r = state.userdata_at::<T>(idx): the host keeps the reference
HoldRef(T, idx) ==
  /\ Alive
  /\ life.held = {}
  /\ \E r \in {userdata_at(Cur, T, idx)} :
        /\ r.kind = "Ok"
        /\ Step([Cur EXCEPT !.life.held = @ \cup {r.val}],
                [op |-> "userdata_at", T |-> T, idx |-> idx, pre |-> Cur.stack, r |-> r])
  /\ UNCHANGED <<caught, interned>>

\* the host reads through a reference it holds
UseRef ==
  /\ \E ref \in life.held : \E got \in deref(Cur, ref) :
        Step(Cur, [op |-> "deref", ref |-> ref, got |-> got,
                   finalized |-> ref.value \in DOMAIN life.finalized])
  /\ UNCHANGED <<caught, interned>>

\* the host lets go of the references it holds
ReleaseRef ==
  /\ life.held # {}
  /\ Step([Cur EXCEPT !.life.held = {}], [op |-> "release"])
  /\ UNCHANGED <<caught, interned>>

\* state.get_metatable_of::<T>()
GetMetatableOf(T) ==
  /\ Len(Cur.stack) < MaxTop
  /\ Step(get_metatable_of(Cur, T), [op |-> "get_metatable_of", T |-> T, pre |-> Cur.stack])
  /\ UNCHANGED <<caught, interned>>

(***************************************************************************)
(* The properties.  Each is stated over the record of the last operation   *)
(* and the state it left.                                                  *)
(***************************************************************************)
\* the stack of the frame the last operation ran in
StackNow == frames[depth].stack

\* stack is base followed by the results a call asking for `results` keeps
\* of the values rets the callee returned, in the order it pushed them
Framed(stack, base, rets, results) ==
  IF results = MultRet
  THEN stack = base \o rets
  ELSE /\ Len(stack) = Len(base) + results.val
       /\ SubSeq(stack, 1, Len(base)) = base
       /\ \A i \in 1..results.val :
            i <= Len(rets) => stack[Len(base) + i] = rets[i]

\* C1: a State::call(N, Num(K)) that succeeded leaves the stack at height
\* h + K: the h slots below the callable as they were, then the callee's
\* results in the order it pushed them, the callable and the arguments gone;
\* a call(N, MultRet) whose callee returned R values leaves height h + R.
C1_CallResultFraming ==
  (last.op = "call" /\ last.r.kind = "Ok") =>
    /\ Len(last.base) = last.h
    /\ Framed(StackNow, last.base, last.rets, last.results)
    /\ last.results = MultRet => Len(StackNow) = last.h + Len(last.rets)
    /\ last.results.k = "Num" => Len(StackNow) = last.h + last.results.val

\* a call with one argument asking for two results got two different values
C1_Witness ==
  /\ last.op = "call" /\ last.r.kind = "Ok"
  /\ last.nargs = 1 /\ last.results = Num(2)
  /\ Len(last.rets) = 2 /\ last.rets[1] # last.rets[2]

\* C2: a State::call that failed with a run error returns Err and leaves
\* the stack as it was below the callable: callable, arguments, handler and
\* error value are gone.
C2_FailureRestoresStack ==
  (last.op = "call" /\ (last.r.kind = "Err" \/ last.how \in {"Err", "Propagate", "Raw"})) =>
    /\ last.r.kind = "Err"
    /\ StackNow = last.base
    /\ Len(StackNow) = last.h

\* a call with a slot below the callable and one argument failed
C2_Witness ==
  /\ last.op = "call" /\ last.r.kind = "Err"
  /\ last.h = 1 /\ last.nargs = 1

\* C3: a callback that returned Err(RunError{message: m}) makes the
\* enclosing State::call return Err(e) with e.message = m.
C3_ErrorMessageRoundTrip ==
  (last.op = "call" /\ last.how = "Err") =>
    /\ last.r.kind = "Err"
    /\ last.r.val.message = last.given.message

\* the callback of the host's call returned the error of test_error
C3_Witness ==
  /\ last.op = "call" /\ last.how = "Err" /\ last.frame = 1
  /\ last.given.message = "Test error~" /\ last.r.kind = "Err"

\* C4: a host function that panicked under the trampoline makes the VM's
\* protected call end with a run-time error status, and the enclosing
\* State::call resume the unwinding with the same payload; it returns
\* neither Ok nor Err.
C4_PanicResumed ==
  (last.op = "call" /\ last.how \in {"Panic", "Unwinding"}) =>
    /\ last.status = "LUA_ERRRUN"
    /\ last.r.kind = "Panic"
    /\ last.r.val = last.given

\* the panic of a callback two calls deep reached the host
C4_Witness ==
  /\ last.op = "call" /\ last.how = "Unwinding" /\ last.frame = 1
  /\ last.r = Unwind("Test panic~")

\* C5: when the host's State::call has unwound with a callback's panic the
\* stack is as it was below the callable, and every call the host makes
\* after it has caught one that succeeds frames its results as any other.
C5_UsableAfterPanic ==
  /\ (last.op = "call" /\ last.frame = 1 /\ last.r.kind = "Panic") =>
       (StackNow = last.base /\ Len(StackNow) = last.h)
  /\ (caught /\ last.op = "call" /\ last.frame = 1 /\ last.how = "Ok") =>
       (last.r.kind = "Ok" /\ Framed(StackNow, last.base, last.rets, last.results))

\* after a caught panic a call of the host returned two values
C5_Witness ==
  /\ caught
  /\ last.op = "call" /\ last.frame = 1 /\ last.how = "Ok" /\ last.r.kind = "Ok"
  /\ Len(last.rets) = 2 /\ Len(StackNow) = last.h + 2

\* C6: the error a State::call returns carries the backtrace captured
\* where the error arose (by the callback that made it, or by the handler
\* for a raw VM error), however many calls it crossed; a payload crosses
\* the handlers unchanged as well.
C6_BacktraceCapturedOnce ==
  /\ (last.op = "call" /\ last.r.kind = "Err") => last.r.val.backtrace = last.org
  /\ (last.op = "call" /\ last.how = "Propagate") => last.r = Err(last.given)
  /\ (last.op = "call" /\ last.r.kind = "Panic") => last.r.val = last.given

\* a raw VM error raised two calls deep reached the host through try!
C6_Witness ==
  /\ last.op = "call" /\ last.how = "Propagate" /\ last.frame = 1
  /\ last.r.kind = "Err"
  /\ last.r.val.message \in RawErrors
  /\ Len(last.r.val.backtrace) = 3

\* the value the last read addressed, in the stack as it was before
ReadSlot == index2value([stack |-> last.pre, up |-> <<>>], to_ffi(last.idx))

\* C7: userdata_at::<T> on a block push_userdata made for a value of type T
\* returns a reference to that value; on a block of another type it returns
\* the conversion error of Userdata, on a slot that holds no userdata the
\* conversion error of the slot's type; the stack is unchanged.
C7_UserdataTypeChecked ==
  last.op = "userdata_at" =>
    /\ StackNow = last.pre
    /\ (ReadSlot.t = "ud" /\ ud[ReadSlot.v].type_id = last.T) =>
         (last.r.kind = "Ok" /\ last.r.val.value = ud[ReadSlot.v].value)
    /\ (ReadSlot.t = "ud" /\ ud[ReadSlot.v].type_id # last.T) =>
         (/\ last.r.kind = "Err"
          /\ last.r.val.message =
               "invalid conversion from Lua type Userdata to Rust type " \o last.T)
    /\ ReadSlot.t \notin {"ud", "none"} =>
         (/\ last.r.kind = "Err"
          /\ last.r.val.message =
               "invalid conversion from Lua type " \o LuaTypeName(ReadSlot)
                 \o " to Rust type " \o last.T)

\* a block pushed as an A was read as an A, below a second slot
C7_Witness ==
  /\ last.op = "userdata_at" /\ last.T = "A" /\ last.r.kind = "Ok"
  /\ last.r.val.value = 7
  /\ Len(last.pre) = 2 /\ last.idx = StackIdx(1)

\* the handles intern has returned give their strings back
InternRoundTrip ==
  \A p \in interned :
    at(push(Cur, "LuaString", p.h), "String", StackIdx(-1)).r = Ok(p.s)

\* C8: pushing the handle intern(s) returned and reading it back as a
\* string yields s, and interning the same content twice yields equal
\* handles.
C8_InternHandlesEqual ==
  /\ InternRoundTrip
  /\ \A p, q \in interned : p.s = q.s => p.h = q.h

\* C9: intern(s) leaves the height of the stack and every slot as they
\* were, so that the sequence of test_intern ends with get_top() = 0.
C9_InternStackNeutral ==
  /\ last.op = "intern" => StackNow = last.pre
  /\ \A s \in InternInputs :
       get_top(pop(at(push(intern(State_new, s).L, "LuaString", intern(State_new, s).r),
                      "String", StackIdx(-1)).L, 1)) = 0

\* a string was interned over a stack of two slots
C9_Witness ==
  /\ last.op = "intern" /\ Len(last.pre) = 2
  /\ \E p \in interned : p.h = last.h

\* C10: at::<T>, userdata_at and userdata_move leave the height of the
\* stack as it was, whether the read succeeded or failed.
C10_ReadsKeepHeight ==
  last.op \in {"at", "userdata_at", "userdata_move"} => Len(StackNow) = Len(last.pre)

\* a string of the stack was read as a LuaString, which pushes temporaries
C10_Witness ==
  /\ last.op = "at" /\ last.T = "LuaString" /\ last.ok
  /\ Len(last.pre) = 2

\* C11: a load that succeeded has pushed the compiled function and nothing
\* else; a load that failed with a load error has pushed nothing.
C11_LoadPushesOnlyOnSuccess ==
  last.op = "load" =>
    /\ last.r.kind = "Ok" =>
         (/\ Len(StackNow) = Len(last.pre) + 1
          /\ SubSeq(StackNow, 1, Len(last.pre)) = last.pre
          /\ StackNow[Len(StackNow)].t = "fn")
    /\ last.r.kind = "Err" => StackNow = last.pre

\* C12: a stream that reports an IO failure while it is read makes
\* load_stream return Err(LoadError::Io).
C12_ReaderFailureIsIoError ==
  (last.op = "load" /\ last.error # "") =>
    (last.r.kind = "Err" /\ last.r.val = Io(last.error))

\* the values of the host integer type T (at the model's scaled widths)
HostRange(T) ==
  IF T \in UnsignedTypes
  THEN 0..(Pow2(TypeBits(T)) - 1)
  ELSE (0 - Pow2(TypeBits(T) - 1))..(Pow2(TypeBits(T) - 1) - 1)

\* C14: at::<T> for a host integer type T narrower than the VM's integer,
\* on a slot holding the VM integer v, returns Ok(v) exactly when v is a
\* value of T and a conversion error otherwise, never another number.
C14_NarrowReadsRangeChecked ==
  (last.op = "at_integer" /\ last.T \in NarrowTypes /\ ReadSlot.t = "int") =>
    IF ReadSlot.v \in HostRange(last.T)
    THEN last.r = Ok(ReadSlot.v)
    ELSE last.r.kind = "Err"

\* the value just above the largest u8 was refused as a u8, under a slot
\* holding the largest u32
C14_Witness ==
  /\ last.op = "at_integer" /\ last.T = "u8" /\ last.idx = StackIdx(1)
  /\ last.pre = <<IntV(16), IntV(255)>>
  /\ last.r.kind = "Err"

\* C15: at::<u64> and at::<usize> on a slot holding a negative VM integer
\* return a conversion error.
C15_NegativeAsUnsignedRefused ==
  (last.op = "at_integer" /\ last.T \in {"u64", "usize"}
     /\ ReadSlot.t = "int" /\ ReadSlot.v < 0) =>
    last.r.kind = "Err"

\* C16: push of an unsigned host integer x leaves the VM integer x on top
\* (push returns nothing, so it has no way to report an overflow).
C16_UnsignedPushKeepsValue ==
  (last.op = "push" /\ last.T \in {"u64", "usize"}) =>
    StackNow[Len(StackNow)] = IntV(last.val)

\* C17: State::push(v), for every ToLua type, leaves the slots it found as
\* they were and one new value on top of them.
C17_PushAddsOneSlot ==
  last.op \in {"push", "push_handle"} =>
    /\ Len(StackNow) = Len(last.pre) + 1
    /\ SubSeq(StackNow, 1, Len(last.pre)) = last.pre
    /\ StackNow[Len(StackNow)].t # "none"

\* the handle of an interned string was pushed over a slot and gave the string
C17_Witness ==
  /\ last.op = "push_handle" /\ Len(last.pre) = 1
  /\ StackNow[2].t = "str" /\ StackNow[2].v = last.s

\* C13: lua_close runs on the instance once, when the owning wrapper is
\* dropped, and at no other time: not when the trampoline or the error
\* handler drops the wrapper it made, at any depth, on return or on error.
C13_ClosedOnceByOwner ==
  /\ life.closed = IF last.op = "drop" THEN 1 ELSE 0
  /\ depth > 1 => Alive

\* the owning wrapper was dropped after calls had returned, failed and
\* unwound with a panic
C13_Witness ==
  /\ last.op = "drop" /\ life.closed = 1
  /\ caught

\* the metatable cache: the table State::new stored under "mt"
MtCache ==
  tabs[TGet(tabs[TGet(tabs[RegistryTable].kv, ExtraSpaceKey).v].kv, StrKey("mt")).v].kv

\* C18: the metatable cache holds one table for each type hash used, a
\* table of its own that carries the __gc finalizer; no other table is ever
\* created; every block's metatable is the cached table of its type; and
\* get_metatable_of pushes that table and nothing else.
C18_OneMetatablePerType ==
  /\ \A k \in DOMAIN MtCache :
       /\ MtCache[k].t = "tab"
       /\ StrKey("__gc") \in DOMAIN tabs[MtCache[k].v].kv
       /\ \A j \in DOMAIN MtCache : MtCache[j] = MtCache[k] => j = k
  /\ Len(tabs) = Len(State_new.tabs) + Cardinality(DOMAIN MtCache)
  /\ \A a \in DOMAIN ud :
       ud[a].mt # 0 => MtCache[IntV(TypeHash(ud[a].type_id))] = TabV(ud[a].mt)
  /\ last.op = "get_metatable_of" =>
       StackNow = Append(last.pre, MtCache[IntV(TypeHash(last.T))])

\* the cached table of A was fetched again beside a block of type A, with
\* the table of B cached as well
C18_Witness ==
  /\ last.op = "get_metatable_of" /\ last.T = "A"
  /\ Cardinality(DOMAIN MtCache) = 2
  /\ Len(last.pre) = 1 /\ last.pre[1].t = "ud"
  /\ ud[last.pre[1].v].type_id = "A"
  /\ TabV(ud[last.pre[1].v].mt) = StackNow[2]

\* C19: the finalizer runs at most once on a value, and once the instance
\* is torn down it has run on every value that was pushed and not moved
\* back.
C19_DestructedExactlyOnce ==
  /\ \A v \in DOMAIN life.finalized : life.finalized[v] <= 1
  /\ ~Alive => \A v \in life.pushed \ life.moved :
                 v \in DOMAIN life.finalized /\ life.finalized[v] = 1

\* C20: a record userdata_move::<T> succeeded on has no metatable, and the
\* finalizer never runs on a value that was moved back, in a collection or
\* at teardown; nor does it run on the error or the panic payload that the
\* end of a call moved out of its record.
C20_MovedNeverFinalized ==
  /\ (last.op = "userdata_move" /\ last.r.kind = "Ok") => ud[ReadSlot.v].mt = 0
  /\ \A v \in life.moved : v \notin DOMAIN life.finalized
  /\ DOMAIN life.finalized \subseteq life.pushed

\* a value was moved back, its record collected, another value finalized,
\* and the instance torn down
C20_Witness ==
  /\ ~Alive
  /\ \E v \in life.moved : \A a \in DOMAIN ud : ud[a].value # v
  /\ DOMAIN life.finalized # {}

\* C21: a record is moved back to the host at most once: no userdata_move
\* returns Ok with a value that an earlier userdata_move already gave out.
C21_MovedAtMostOnce ==
  (last.op = "userdata_move" /\ last.r.kind = "Ok") => ~last.again

\* C22: the host never reads through a reference userdata_at gave after
\* the finalizer has run on the value it points to.
C22_NoUseAfterFinalize ==
  last.op = "deref" => ~last.finalized

\* the interned string table: the table State::new stored under "string"
StringTable ==
  tabs[TGet(tabs[TGet(tabs[RegistryTable].kv, ExtraSpaceKey).v].kv, StrKey("string")).v].kv

\* C23: every handle intern or at::<LuaString> has returned maps, in the
\* interned string table, to a string with the content it was returned for.
C23_HandlesStayValid ==
  \A p \in interned :
    /\ TGet(StringTable, IntV(p.h)).t = "str"
    /\ TGet(StringTable, IntV(p.h)).v = p.s

\* C24: a handle at::<LuaString>(idx) returned for the string at idx, idx
\* positive or negative, gives that string back when it is pushed.
C24_HandleReadRoundTrip ==
  (last.op = "at_handle" /\ last.r.kind = "Ok") =>
     at(push(Cur, "LuaString", last.r.val), "String", StackIdx(-1)).r = Ok(last.s)

\* the internal registry and, in it, the table of the program
InternalRegistry == TGet(tabs[RegistryTable].kv, ExtraSpaceKey).v
UserTable == TGet(tabs[InternalRegistry].kv, StrKey("user"))

\* C25: get_registry pushes one value, the table State::new stored under
\* "user", the same at every call; the internal registry keeps the entries
\* State::new gave it; a write to the program's table changes no other
\* table; and no operation but such a write changes the program's table.
C25_RegistryIsolated ==
  /\ [](/\ UserTable = TGet(State_new.tabs[InternalRegistry].kv, StrKey("user"))
        /\ tabs[InternalRegistry].kv = State_new.tabs[InternalRegistry].kv
        /\ tabs[RegistryTable] = State_new.tabs[RegistryTable]
        /\ last.op = "get_registry" => StackNow = Append(last.pre, UserTable))
  /\ [][/\ last'.op = "raw_set" =>
             \A i \in DOMAIN tabs : i # UserTable.v => tabs'[i] = tabs[i]
        /\ last'.op # "raw_set" => tabs'[UserTable.v] = tabs[UserTable.v]]_tabs

\* the program's table, holding an entry the program wrote, was fetched
\* again after a string was interned, a userdata pushed and a call failed
C25_Witness ==
  /\ last.op = "get_registry" /\ Len(last.pre) = 1
  /\ DOMAIN tabs[UserTable.v].kv # {}
  /\ interned # {} /\ life.pushed # {}
  /\ MtCache # EmptyTable

\* C26: the backtrace of an error the handler wrapped lists the frames
\* that were active where the error was raised, innermost first: one entry
\* for the function that raised it, then one for each caller, and no entry
\* for the handler itself.
C26_BacktraceInnermostFirst ==
  (last.op = "call" /\ last.how = "Raw" /\ last.given \in RawErrors /\ last.r.kind = "Err") =>
     last.r.val.backtrace =
        [level \in 1..last.frame |-> backtrace_entry(CiOf(last.frame + 1)[level])]

\* C27: State::new leaves a panic hook of its own on the instance, and an
\* error raised outside every protected call reaches that hook and not the
\* VM's default, which aborts the process.
C27_PanicHookInstalled ==
  last.op = "unprotected" => (Cur.panicf = "panic" /\ last.r.kind = "Panic")

\* C28: push_closure(f, n) replaces the n values on top by one closure and
\* leaves the slots below; the closure has n + 1 upvalues, the function
\* block first and the n values after it in the order they were pushed, so
\* that in the callback Upvalue(i) reads the i-th value; n <= 254 keeps the
\* count within the VM's limit.
C28_ClosureUpvalues ==
  /\ last.op = "push_closure" =>
       LET h == Len(last.pre) - last.n
           f == StackNow[h + 1]
       IN /\ Len(StackNow) = h + 1
          /\ SubSeq(StackNow, 1, h) = SubSeq(last.pre, 1, h)
          /\ f.t = "fn" /\ f.v.f = "func"
          /\ Len(f.v.up) = last.n + 1
          /\ f.v.up[1].t = "ud" /\ ud[f.v.up[1].v].value = "test_function"
          /\ \A i \in 1..last.n : f.v.up[i + 1] = last.pre[h + i]
  /\ last.op = "at_upvalue" =>
       IF last.i + 1 <= Len(last.up) /\ last.up[last.i + 1].t = "int"
       THEN last.r = Ok(last.up[last.i + 1].v)
       ELSE last.r.kind = "Err"
  /\ \A n \in 0..MaxAssociated : n + 1 <= MAXUPVAL

\* a callback read its second associated value, which differs from the first
C28_Witness ==
  /\ last.op = "at_upvalue" /\ last.i = 2
  /\ Len(last.up) = 3
  /\ last.r.kind = "Ok" /\ last.r.val = last.up[3].v
  /\ last.up[2] # last.up[3]

\* C29: State::call(nargs, Num(k)) asks the VM for exactly k results, for
\* every k a u32 can hold, and leaves k results on success; only MultRet
\* asks for all results.
C29_ResultCountExact ==
  last.op = "call" =>
     IF last.results.k = "Num"
     THEN /\ last.nresults = last.results.val
          /\ last.r.kind = "Ok" => Len(StackNow) = last.h + last.results.val
     ELSE last.nresults = LUA_MULTRET

\* C30: set_top succeeds for every acceptable index and for 0: for
\* idx >= 0 the stack has idx slots, the old ones kept and the new ones
\* nil; for idx < 0 the top is set relative to the old top.
C30_SetTopAcceptsAnyIndex ==
  last.op = "set_top" =>
     /\ last.r.kind = "Ok"
     /\ IF last.idx >= 0
        THEN StackNow = [i \in 1..last.idx |->
                           IF i <= Len(last.pre) THEN last.pre[i] ELSE Nil]
        ELSE StackNow = SubSeq(last.pre, 1, Len(last.pre) + last.idx + 1)

\* the handler State::new stored in the Internal Registry
Handler == TGet(tabs[InternalRegistry].kv, StrKey("errfunc"))

\* C31: during a State::call the error handler is in the slot the callable
\* had (directly below the callable and its arguments), that slot is the one
\* given to lua_pcall, and when the call has returned, with Ok, with Err or
\* unwinding, the handler is in no slot and the slots below the callable
\* are as they were.
C31_HandlerBelowCallable ==
  /\ last.op = "enter" =>
       /\ frames[depth - 1].call.errfunc_idx = last.fn
       /\ frames[depth - 1].stack[last.fn] = Handler
  /\ \A i \in 1..(depth - 1) :
       /\ frames[i].call.errfunc_idx = Len(frames[i].stack)
       /\ frames[i].stack[frames[i].call.errfunc_idx] = Handler
       /\ \A j \in 1..(Len(frames[i].stack) - 1) : frames[i].stack[j] # Handler
  /\ last.op = "call" =>
       /\ SubSeq(StackNow, 1, last.h) = last.base
       /\ \A j \in DOMAIN StackNow : StackNow[j] # Handler

\* a call with a slot below the callable gave all the callee's results, one
C31_Witness ==
  /\ last.op = "call" /\ last.how = "Ok" /\ last.r.kind = "Ok"
  /\ last.h = 1 /\ last.results = MultRet /\ Len(last.rets) = 1
  /\ Len(StackNow) = 2

\* C32: a panic of a callback at any depth of nested State::calls reaches
\* the host's call as an unwinding with the payload it had: every call it
\* crosses ends with a run-time error status of lua_pcall and resumes the
\* unwinding, none returns Ok or Err, and the unwinding of a callback is
\* caught and boxed again until the call of the host has resumed it.
C32_FaultReachesHost ==
  /\ [](last.op = "call" /\ last.how \in {"Panic", "Unwinding"}
         => /\ last.status = "LUA_ERRRUN"
            /\ last.r.kind = "Panic" /\ last.r.val = last.given
            /\ frames[last.frame].res = last.r
            /\ last.frame > 1 => ~Running)
  /\ \A payload \in Payloads :
       (last.op = "call" /\ last.how = "Panic" /\ last.given = payload)
         ~> (/\ last.op = "call" /\ last.frame = 1
             /\ last.r.kind = "Panic" /\ last.r.val = payload)

\* the panic of a callback two calls deep has been resumed in the callback
\* that called it, which is unwinding
C32_Witness ==
  /\ depth = MaxDepth /\ ~Running
  /\ last.op = "call" /\ last.how = "Panic" /\ last.frame = MaxDepth
  /\ frames[depth].res = Unwind("Test panic~")

\* C33: a read with at::<T>(idx) leaves every slot of the stack, the one
\* at idx included, with the value and the VM type it had before the read.
C33_AtLeavesSlots ==
  last.op = "at" => StackNow = last.pre

\* C34: every entry of a backtrace reads "<source>:<line> in <name>"; the
\* line is the current line when that is greater than 0 and blank when not,
\* and the name is "<kind> '<name>'" when the VM gives a kind, else "[main]"
\* for the main chunk, else "[native]" for a host function, else
\* "function <source:line defined>".
C34_BacktraceEntryFormat ==
  last.op = "backtrace" =>
    /\ Len(last.r) = Len(last.ci)
    /\ \A level \in DOMAIN last.ci :
         LET ar == last.ci[level]
             line == IF ar.currentline > 0 THEN IntToStr(ar.currentline) ELSE ""
             head == ar.short_src \o ":" \o line \o " in "
         IN /\ ar.namewhat # "" =>
                 last.r[level] = head \o ar.namewhat \o " '" \o ar.name \o "'"
            /\ (ar.namewhat = "" /\ ar.what = "main") => last.r[level] = head \o "[main]"
            /\ (ar.namewhat = "" /\ ar.what = "C") => last.r[level] = head \o "[native]"
            /\ (ar.namewhat = "" /\ ar.what \notin {"main", "C"}) =>
                 last.r[level] = head \o "function <" \o ar.short_src \o ":"
                                      \o IntToStr(ar.linedefined) \o ">"

\* print, called by name from the main chunk
C34_Witness ==
  /\ last.op = "backtrace"
  /\ last.r = <<"[C]: in global 'print'", "test:5 in [main]">>

\* the string form of a string or a number
StringForm(v) == IF v.t = "str" THEN v.v ELSE IntToStr(v.v)

C36_UnreachableNeverReached ==
  (last.op = "call" /\ last.status \in {"LUA_ERRRUN", "LUA_ERRGCMM"}) =>
    /\ last.r.kind \in {"Err", "Panic"}
    /\ last.r.kind = "Panic" => last.r.val # "unreachable"

\* C37: a userdata_move::<T>(idx) that fails, because the record at idx is
\* of another type or the value is no userdata, leaves the VM as it was:
\* every record keeps the metatable it had.
C37_FailedMoveLeavesVM ==
  [][(last'.op = "userdata_move" /\ last'.r.kind = "Err") =>
       \A b \in DOMAIN ud : b \in DOMAIN ud' /\ ud'[b].mt = ud[b].mt]_ud

\* C38: every full userdata that a LuaIndex addresses and that
\* is_userdata_of_type (and with it userdata_at and userdata_move) is given
\* is a record with a type_id, one push_userdata made; the block in which
\* push_closure keeps the function is addressed by no LuaIndex::Upvalue of a
\* callback.
C38_AddressedBlocksTagged ==
  (last.op = "is_userdata_of_type" /\ last.block # 0) => last.type_id # ""

(***************************************************************************)
(* The specifications: the call protocol, userdata and typed reads, and    *)
(* interned strings, each over the operations it involves.                 *)
(***************************************************************************)
NextCall ==
  \/ \E n \in IntInputs : PushInteger(n)
  \/ PushFunction
  \/ \E nargs \in 0..1, results \in CallResults : CallNative(nargs, results)
  \/ \E nargs \in 0..1 : CallNonFunction(nargs, Num(0))
  \/ \E n \in 0..MaxStack : ReturnOk(n)
  \/ \E m \in Messages : ReturnErr(m)
  \/ Propagate
  \/ \E payload \in Payloads : Panic(payload)
  \/ Unwinding
  \/ \E msg \in RawErrors : RaiseRaw(msg)

NextUserdata ==
  \/ \E n \in ReadInputs : Push("i64", n)
  \/ \E s \in StringInputs : Push("String", s)
  \/ Push("bool", TRUE)
  \/ \E T \in HostTypes, value \in HostValues : PushUserdata(T, value)
  \/ \E T \in HostTypes, idx \in StackIndices : UserdataAt(T, idx)
  \/ \E T \in HostTypes, idx \in StackIndices : UserdataMove(T, idx)
  \/ \E T \in FromLuaTypes, idx \in StackIndices : At(T, idx)

NextIntern ==
  \/ \E n \in IntInputs : Push("i64", n)
  \/ Pop
  \/ \E s \in InternInputs : Intern(s)
  \/ \E p \in interned : PushHandle(p)
  \/ \E idx \in StackIndices : At("String", idx)

NextLoad ==
  \/ \E n \in IntInputs : HostPush(n)
  \/ HostPop
  \/ \E str \in Chunks, chunkname \in ChunkNames : LoadString(str, chunkname)
  \/ \E stream \in Streams, chunkname \in ChunkNames, outcome \in FaultOutcomes :
        LoadStream(stream, chunkname, outcome)

NextRead ==
  \/ \E v \in ConvertInputs : Push("i64", v)
  \/ \E T \in NarrowTypes \cup {"u64", "usize"}, idx \in StackIndices : AtInteger(T, idx)

NextPush ==
  \/ \E T \in UnsignedTypes : \E x \in UnsignedInputs \cap HostRange(T) : Push(T, x)
  \/ \E T \in SignedTypes \cup {"f32", "f64"} : \E v \in {-9, 127} \cap HostRange(T) : Push(T, v)
  \/ \E b \in BOOLEAN : Push("bool", b)
  \/ \E T \in {"str", "String"}, s \in StringInputs : Push(T, s)
  \/ Pop
  \/ Intern("test")
  \/ \E p \in interned : PushHandle(p)

NextLife ==
  \/ \E o \in Owned : PushOwned(o.T, o.value)
  \/ \E T \in HostTypes : MoveOut(T, StackIdx(-1))
  \/ OwnerPop
  \/ OwnerPushFunction
  \/ OwnerCall
  \/ ReturnOk(0)
  \/ ReturnErr("oops")
  \/ \E payload \in Payloads : Panic(payload)
  \/ Unwinding
  \/ DropState

NextRef ==
  \/ \E o \in Owned : PushOwned(o.T, o.value)
  \/ \E T \in HostTypes, idx \in {StackIdx(-1), StackIdx(1)} : HoldRef(T, idx)
  \/ UseRef
  \/ ReleaseRef
  \/ OwnerPop
  \/ DropState

NextHandle ==
  \/ \E str \in HandleInputs : Push("String", str)
  \/ Pop
  \/ Intern("test")
  \/ \E idx \in HandleIndices : AtLuaString(idx)
  \/ \E p \in interned : PushHandle(p)

NextRegistry ==
  \/ GetRegistry
  \/ RawSet(StackIdx(-3))
  \/ RawGet(StackIdx(-2))
  \/ HostPush(1)
  \/ HostPop
  \/ Intern("test")
  \/ PushOwned("A", 1)
  \/ OwnerPushFunction
  \/ OwnerCall
  \/ ReturnOk(0)
  \/ ReturnErr("oops")

NextPanic ==
  \/ \E n \in IntInputs : HostPush(n)
  \/ HostPop
  \/ \E str \in Chunks, chunkname \in ChunkNames : LoadString(str, chunkname)
  \/ \E msg \in RawErrors \cup Messages : RaiseUnprotected(msg)

NextClosure ==
  \/ \E n \in IntInputs : Push("i64", n)
  \/ Pop
  \/ \E n \in 0..2 : PushClosure(n)
  \/ CallNative(0, Num(0))
  \/ \E i \in 1..2 : AtUpvalue(i)
  \/ ReturnOk(0)

NextResults ==
  \/ \E n \in IntInputs : PushInteger(n)
  \/ Pop
  \/ PushFunction
  \/ \E results \in WideResults : CallNative(0, results)
  \/ \E n \in 0..1 : ReturnOk(n)

NextTop ==
  \/ \E n \in IntInputs : PushInteger(n)
  \/ Pop
  \/ \E idx \in TopInputs : SetTop(idx)

NextFault ==
  \/ \E n \in IntInputs : PushInteger(n)
  \/ PushFunction
  \/ \E results \in CallResults : CallNative(0, results)
  \/ \E n \in 0..1 : ReturnOk(n)
  \/ \E payload \in Payloads : Panic(payload)
  \/ Unwinding

NextBacktrace ==
  \/ \E ci \in CallStacks : Backtrace(ci)

NextBlock ==
  \/ PushInteger(2)
  \/ \E o \in Owned : PushOwned(o.T, o.value)
  \/ \E n \in 0..1 : PushClosure(n)
  \/ CallNative(0, Num(0))
  \/ \E T \in HostTypes, idx \in BlockIndices : IsUserdataOfType(T, idx)
  \/ ReturnOk(0)

NextHandler ==
  \/ PushFunction
  \/ CallNative(0, Num(0))
  \/ ReturnOk(0)
  \/ depth >= 2 /\ PushInteger(2)
  \/ depth >= 2 /\ Push("String", "oops")
  \/ depth >= 2 /\ Push("bool", TRUE)
  \/ depth >= 2 /\ PushNil
  \/ depth >= 2 /\ GetRegistry
  \/ \E tag \in ForeignTags : PushForeign(tag)
  \/ RaiseTop
  \/ FinalizerRaises("oops")
  \/ Unwinding

NextMeta ==
  \/ \E o \in Owned : PushOwned(o.T, o.value)
  \/ \E T \in HostTypes : GetMetatableOf(T)
  \/ Pop

Next == NextCall \/ NextUserdata \/ NextIntern \/ NextLoad \/ NextRead \/ NextPush
        \/ NextLife \/ NextMeta \/ NextRef \/ NextHandle
        \/ NextRegistry \/ NextPanic \/ NextClosure
        \/ NextResults \/ NextTop \/ NextFault \/ NextBacktrace
        \/ NextHandler \/ NextBlock

SpecCall == Init /\ [][NextCall]_vars
SpecUserdata == Init /\ [][NextUserdata]_vars
SpecIntern == Init /\ [][NextIntern]_vars
SpecLoad == Init /\ [][NextLoad]_vars
SpecRead == Init /\ [][NextRead]_vars
SpecPush == Init /\ [][NextPush]_vars
SpecLife == Init /\ [][NextLife]_vars
SpecMeta == Init /\ [][NextMeta]_vars
SpecRef == Init /\ [][NextRef]_vars
SpecHandle == Init /\ [][NextHandle]_vars
SpecRegistry == Init /\ [][NextRegistry]_vars
SpecPanic == Init /\ [][NextPanic]_vars
SpecClosure == Init /\ [][NextClosure]_vars
SpecResults == Init /\ [][NextResults]_vars
SpecTop == Init /\ [][NextTop]_vars
\* Unwinding is no step the host or a callback can leave out: a callback
\* whose call resumed a panic runs nothing else until its trampoline has
\* caught it.  Every Unwinding ends a frame.
SpecFault == Init /\ [][NextFault]_vars /\ WF_depth(Unwinding)
SpecBacktrace == Init /\ [][NextBacktrace]_vars
SpecBlock == Init /\ [][NextBlock]_vars
SpecHandler == Init /\ [][NextHandler]_vars
Spec == Init /\ [][Next]_vars

====
